---- MODULE Spec2Model ----
(***************************************************************************)
(* Reminder and scheduled-notification engine of the personal assistant    *)
(* bot: the reminder store, the Reminder Poller (reminder.Scheduler), the  *)
(* Recurrence Calculator (calculateNext) and the Daily Task Scheduler.     *)
(*                                                                         *)
(* Instants are seconds since 1970-01-01T00:00:00Z.  A Go time.Time is an  *)
(* instant together with the UTC offset of its location; the operators     *)
(* that read calendar fields take that offset as a parameter.  Strings     *)
(* the code parses (recurrence rules) are sequences of one-character       *)
(* strings, so that prefix tests, splitting and Atoi are computed.         *)
(***************************************************************************)
EXTENDS Integers, Sequences, FiniteSets, TLC

\* ------------------------------------------------------------------------
\* Calendar arithmetic of Go's time package (proleptic Gregorian calendar).
\* ------------------------------------------------------------------------

SecPerMin  == 60
SecPerHour == 3600
SecPerDay  == 86400

\* Floor division and modulus for possibly negative dividends.
\* (The calendar operators bind their arguments over one-element sets,
\* which evaluates each of them once.)
FloorDiv(a, b) ==
    CHOOSE q \in {IF x >= 0 THEN x \div y ELSE -(((-x) + y - 1) \div y) :
                    x \in {a}, y \in {b}} : TRUE
FloorMod(a, b) ==
    CHOOSE r \in {x - y * FloorDiv(x, y) : x \in {a}, y \in {b}} : TRUE

\* Day number (days since 1970-01-01) of the civil date y-m-d, 1 <= m <= 12;
\* d may lie outside the month: the day number just runs on.
DaysFromCivil(y, m, d) ==
    CHOOSE n \in
        { LET yy  == IF m0 <= 2 THEN y0 - 1 ELSE y0
              era == FloorDiv(yy, 400)
              yoe == yy - era * 400
              mp  == IF m0 > 2 THEN m0 - 3 ELSE m0 + 9
              doy == (153 * mp + 2) \div 5 + d0 - 1
              doe == yoe * 365 + yoe \div 4 - yoe \div 100 + doy
          IN  era * 146097 + doe - 719468 :
            y0 \in {y}, m0 \in {m}, d0 \in {d} } : TRUE

\* Civil date of a day number.
CivilFromDays(z) ==
    LET zz  == z + 719468
        era == FloorDiv(zz, 146097)
        doe == zz - era * 146097
        yoe == (doe - doe \div 1460 + doe \div 36524 - doe \div 146096) \div 365
        doy == doe - (365 * yoe + yoe \div 4 - yoe \div 100)
        mp  == (5 * doy + 2) \div 153
        d   == doy - (153 * mp + 2) \div 5 + 1
        m   == IF mp < 10 THEN mp + 3 ELSE mp - 9
        y   == yoe + era * 400 + (IF m <= 2 THEN 1 ELSE 0)
    IN  [year |-> y, month |-> m, day |-> d]

\* The civil dates of the days from 2025-01-01 to 2035-12-31, tabulated.
FirstDay == DaysFromCivil(2025, 1, 1)
LastDay  == DaysFromCivil(2035, 12, 31)
CivilOfDay == [z \in FirstDay..LastDay |-> CivilFromDays(z)]

\* Calendar fields of instant t read in a location of UTC offset off
\* (t.Year(), t.Month(), t.Day(), t.Hour(), t.Minute(), t.Second(),
\* t.Weekday() with Sunday = 0).
LocalSec(t, off) == t + off
DayNumber(t, off) == FloorDiv(LocalSec(t, off), SecPerDay)
SecOfDay(t, off) == FloorMod(LocalSec(t, off), SecPerDay)
Year(t, off)    == CivilOfDay[DayNumber(t, off)].year
Month(t, off)   == CivilOfDay[DayNumber(t, off)].month
Day(t, off)     == CivilOfDay[DayNumber(t, off)].day
Hour(t, off)    == SecOfDay(t, off) \div SecPerHour
Minute(t, off)  == (SecOfDay(t, off) % SecPerHour) \div SecPerMin
Second(t, off)  == SecOfDay(t, off) % SecPerMin
Weekday(t, off) == FloorMod(DayNumber(t, off) + 4, 7)

\* time.Date(year, month, day, hour, min, sec, 0, loc): month and day are
\* normalised (month 13 is January of the next year, day 32 runs into the
\* next month), the result is the instant of that wall-clock time in loc.
Date(year, month, day, hour, min, sec, off) ==
    CHOOSE t \in
        { LET y == year0 + FloorDiv(month0 - 1, 12)
              m == FloorMod(month0 - 1, 12) + 1
          IN  DaysFromCivil(y, m, day) * SecPerDay
                + hour * SecPerHour + min * SecPerMin + sec - off :
            year0 \in {year}, month0 \in {month} } : TRUE

\* t.AddDate(years, months, days) for a time t held in a location of offset
\* off: Date() of the shifted fields in the same location.
AddDate(t, off, years, months, days) ==
    CHOOSE r \in
        { Date(Year(t0, off) + years, Month(t0, off) + months, Day(t0, off) + days,
               Hour(t0, off), Minute(t0, off), Second(t0, off), off) :
            t0 \in {t} } : TRUE

\* ------------------------------------------------------------------------
\* Strings as sequences of characters: strings.HasPrefix, TrimPrefix,
\* Split, ToLower and strconv.Atoi.
\* ------------------------------------------------------------------------

UpperChars == <<"A","B","C","D","E","F","G","H","I","J","K","L","M",
                "N","O","P","Q","R","S","T","U","V","W","X","Y","Z">>
LowerChars == <<"a","b","c","d","e","f","g","h","i","j","k","l","m",
                "n","o","p","q","r","s","t","u","v","w","x","y","z">>
DigitChars == <<"0","1","2","3","4","5","6","7","8","9">>

HasPrefix(s, p) == Len(s) >= Len(p) /\ SubSeq(s, 1, Len(p)) = p
TrimPrefix(s, p) == IF HasPrefix(s, p) THEN SubSeq(s, Len(p) + 1, Len(s)) ELSE s

LowerChar(c) ==
    IF \E i \in 1..26 : UpperChars[i] = c
    THEN LowerChars[CHOOSE i \in 1..26 : UpperChars[i] = c]
    ELSE c
ToLower(s) == [i \in 1..Len(s) |-> LowerChar(s[i])]

\* strings.Split(s, sep) for a one-character separator.
RECURSIVE SplitFrom(_, _, _)
SplitFrom(s, sep, acc) ==
    IF s = <<>> THEN <<acc>>
    ELSE IF Head(s) = sep THEN <<acc>> \o SplitFrom(Tail(s), sep, <<>>)
    ELSE SplitFrom(Tail(s), sep, Append(acc, Head(s)))
Split(s, sep) == SplitFrom(s, sep, <<>>)

IsDigit(c) == \E i \in 1..10 : DigitChars[i] = c
DigitValue(c) == (CHOOSE i \in 1..10 : DigitChars[i] = c) - 1
RECURSIVE DecimalValue(_, _)
DecimalValue(s, acc) ==
    IF s = <<>> THEN acc ELSE DecimalValue(Tail(s), acc * 10 + DigitValue(Head(s)))

\* strconv.Atoi: an optional sign followed by at least one decimal digit.
Atoi(s) ==
    LET signed == Len(s) > 0 /\ s[1] \in {"+", "-"}
        digits == IF signed THEN Tail(s) ELSE s
        bad    == digits = <<>> \/ \E i \in 1..Len(digits) : ~IsDigit(digits[i])
        mag    == IF bad THEN 0 ELSE DecimalValue(digits, 0)
    IN  [err |-> bad,
         val |-> IF signed /\ s[1] = "-" THEN -mag ELSE mag]

\* ------------------------------------------------------------------------
\* Recurrence Calculator.
\* ------------------------------------------------------------------------

\* Location of the times read back from the store (TIMESTAMPTZ comes back
\* as UTC) and of the configured user timezone (Asia/Jakarta, UTC+7).
DBOffset == 0
TZOffset == 7 * SecPerHour

Sunday    == 0
Monday    == 1
Tuesday   == 2
Wednesday == 3
Thursday  == 4
Friday    == 5
Saturday  == 6

parseDayOfWeek(day) ==
    LET d == ToLower(day)
    IN  CASE d \in {<<"m","o","n">>, <<"s","e","n","i","n">>} -> Monday
          [] d \in {<<"t","u","e">>, <<"s","e","l","a","s","a">>} -> Tuesday
          [] d \in {<<"w","e","d">>, <<"r","a","b","u">>} -> Wednesday
          [] d \in {<<"t","h","u">>, <<"k","a","m","i","s">>} -> Thursday
          [] d \in {<<"f","r","i">>, <<"j","u","m","a","t">>} -> Friday
          [] d \in {<<"s","a","t">>, <<"s","a","b","t","u">>} -> Saturday
          [] d \in {<<"s","u","n">>, <<"m","i","n","g","g","u">>} -> Sunday
          [] OTHER -> Monday

RuleDaily     == <<"d","a","i","l","y">>
PrefixWeekly  == <<"w","e","e","k","l","y",":">>
PrefixMonthly == <<"m","o","n","t","h","l","y",":">>
PrefixYearly  == <<"y","e","a","r","l","y",":">>

\* for next.Weekday() != targetDay { next = next.AddDate(0, 0, 1) }
\* loop[v] is the value of next when the loop entered with next = v exits.
AdvanceToWeekday(t, off, targetDay) ==
    LET loop[next \in Int] ==
            IF Weekday(next, off) # targetDay
            THEN loop[AddDate(next, off, 0, 0, 1)]
            ELSE next
    IN  loop[t]

\* for next.Weekday() != targetDay || !next.After(now) { next = next.AddDate(0, 0, 1) }
AdvanceToWeekdayAfter(t, off, targetDay, now) ==
    LET loop[next \in Int] ==
            IF Weekday(next, off) # targetDay \/ ~(next > now)
            THEN loop[AddDate(next, off, 0, 0, 1)]
            ELSE next
    IN  loop[t]

\* The fallback of calculateNext: current.AddDate(0, 0, 1), in current's
\* own location.
NextDay(current) == AddDate(current, DBOffset, 0, 0, 1)

\* Variant of calcDaily that takes the hour and minute of now.
calcDailyAtNowTime(current, loc, now) ==
    LET next == AddDate(current, DBOffset, 0, 0, 1)
    IN  IF next < now
        THEN Date(Year(now, loc), Month(now, loc), Day(now, loc) + 1,
                  Hour(now, loc), Minute(now, loc), 0, loc)
        ELSE next

calcDaily(current, loc, now) ==
    LET next == AddDate(current, DBOffset, 0, 0, 1)
    IN  IF next < now
        THEN Date(Year(now, loc), Month(now, loc), Day(now, loc) + 1,
                  Hour(current, loc), Minute(current, loc), 0, loc)
        ELSE next

calcWeekly(current, rule, loc, now) ==
    LET dayStr    == TrimPrefix(rule, PrefixWeekly)
        targetDay == parseDayOfWeek(dayStr)
        next      == AdvanceToWeekday(AddDate(current, DBOffset, 0, 0, 7),
                                      DBOffset, targetDay)
    IN  IF next < now
        THEN AdvanceToWeekdayAfter(
                 Date(Year(now, loc), Month(now, loc), Day(now, loc),
                      Hour(current, loc), Minute(current, loc), 0, loc),
                 loc, targetDay, now)
        ELSE next

\* Variant of calcMonthly that reads current's hour and minute without
\* converting current to the user's timezone.
calcMonthlyUTCHour(current, rule, loc, now) ==
    LET dateStr == TrimPrefix(rule, PrefixMonthly)
        day     == Atoi(dateStr)
        hh      == Hour(current, DBOffset)
        mi      == Minute(current, DBOffset)
        next    == Date(Year(current, loc), Month(current, loc) + 1, day.val, hh, mi, 0, loc)
        next2   == Date(Year(now, loc), Month(now, loc) + 1, day.val, hh, mi, 0, loc)
        next3   == Date(Year(now, loc), Month(now, loc) + 2, day.val, hh, mi, 0, loc)
    IN  IF day.err \/ day.val < 1 \/ day.val > 31
        THEN NextDay(current)
        ELSE IF next < now
             THEN (IF next2 < now THEN next3 ELSE next2)
             ELSE next

\* Variant of calcMonthly that clamps a day beyond the end of the month to
\* the month's last day.
calcMonthlyClamped(current, rule, loc, now) ==
    LET dateStr == TrimPrefix(rule, PrefixMonthly)
        day     == Atoi(dateStr)
        hh      == Hour(current, loc)
        mi      == Minute(current, loc)
        next    == Date(Year(current, loc), Month(current, loc) + 1, day.val, hh, mi, 0, loc)
        lastDay == Date(Year(current, loc), Month(current, loc) + 2, 1, hh, mi, 0, loc) - SecPerDay
        next2   == Date(Year(now, loc), Month(now, loc) + 1, day.val, hh, mi, 0, loc)
        last2   == Date(Year(now, loc), Month(now, loc) + 2, 1, hh, mi, 0, loc) - SecPerDay
        c1      == IF next > lastDay THEN lastDay ELSE next
        c2      == IF next2 > last2 THEN last2 ELSE next2
    IN  IF day.err \/ day.val < 1 \/ day.val > 31
        THEN NextDay(current)
        ELSE IF c1 < now THEN c2 ELSE c1

calcMonthly(current, rule, loc, now) ==
    LET dateStr == TrimPrefix(rule, PrefixMonthly)
        day     == Atoi(dateStr)
        hh      == Hour(current, loc)
        mi      == Minute(current, loc)
        next    == Date(Year(current, loc), Month(current, loc) + 1, day.val, hh, mi, 0, loc)
        next2   == Date(Year(now, loc), Month(now, loc) + 1, day.val, hh, mi, 0, loc)
        next3   == Date(Year(now, loc), Month(now, loc) + 2, day.val, hh, mi, 0, loc)
    IN  IF day.err \/ day.val < 1 \/ day.val > 31
        THEN NextDay(current)
        ELSE IF next < now
             THEN (IF next2 < now THEN next3 ELSE next2)
             ELSE next

calcYearly(current, rule, loc, now) ==
    LET dateStr == TrimPrefix(rule, PrefixYearly)
        parts   == Split(dateStr, "-")
        month   == Atoi(parts[1])
        day     == Atoi(parts[2])
        hh      == Hour(current, loc)
        mi      == Minute(current, loc)
        next    == Date(Year(current, loc) + 1, month.val, day.val, hh, mi, 0, loc)
        next2   == Date(Year(now, loc) + 1, month.val, day.val, hh, mi, 0, loc)
    IN  IF Len(parts) = 2
        THEN IF month.err \/ day.err \/ month.val < 1 \/ month.val > 12
                  \/ day.val < 1 \/ day.val > 31
             THEN NextDay(current)
             ELSE (IF next < now THEN next2 ELSE next)
        ELSE NextDay(current)

\* calculateNext(current, rule, loc) at the instant now = time.Now().
calculateNext(current, rule, loc, now) ==
    CASE rule = RuleDaily -> calcDaily(current, loc, now)
      [] HasPrefix(rule, PrefixWeekly) -> calcWeekly(current, rule, loc, now)
      [] HasPrefix(rule, PrefixMonthly) -> calcMonthly(current, rule, loc, now)
      [] HasPrefix(rule, PrefixYearly) -> calcYearly(current, rule, loc, now)
      [] OTHER -> NextDay(current)

\* ------------------------------------------------------------------------
\* Bounds and input sets.
\* ------------------------------------------------------------------------

\* SCHEDULER_INTERVAL_SEC default.
IntervalSec == 30

\* Number of todos the users create, and number of clock advances observed.
MaxTodos    == 2
MaxAdvances == 2

\* Number of faults the environment injects in one run: a failed store
\* call, a failed delivery or a process exit.
MaxFaults == 1

\* Number of calls of Stop on one loop in one run.
MaxStops == 2

\* Edits of a todo in a run.
MaxEdits == 2

\* The clock starts at 2026-02-01T22:00:00Z (Monday 2026-02-02 05:00 in the
\* user's timezone) and moves in steps of one poll interval or one day.
StartTime    == Date(2026, 2, 1, 22, 0, 0, DBOffset)
AdvanceSteps == {IntervalSec, SecPerDay}

\* What the two users ask for when they add a todo: no reminder, a
\* single-shot reminder one poll interval or one day after the start, or a
\* recurring one ("" is no recurrence).
AddRequest(u, hasReminder, t, recurring) ==
    [userID |-> u, hasReminder |-> hasReminder, remindAt |-> t, recurring |-> recurring]
AddChoices ==
    { AddRequest(101, FALSE, <<>>, <<>>),
      AddRequest(101, TRUE, <<StartTime + IntervalSec>>, <<>>),
      AddRequest(102, TRUE, <<StartTime + SecPerDay>>, <<>>),
      AddRequest(102, TRUE, <<StartTime + IntervalSec>>, RuleDaily),
      AddRequest(101, TRUE, <<StartTime + IntervalSec>>, PrefixWeekly \o <<"m","o","n">>) }

\* Go pointers that may be nil (*string, *time.Time): <<>> is nil, <<v>>
\* points to v.
Nil == <<>>
Ptr(v) == <<v>>
Deref(p) == p[1]

\* ------------------------------------------------------------------------
\* State.
\* ------------------------------------------------------------------------

VARIABLES
    now,          \* wall clock (time.Now() and the store's NOW())
    advances,     \* number of clock advances so far
    faults,       \* number of faults injected so far
    todos,        \* todos table: todos[id] is the row of todo id
    reminders,    \* reminders table: reminders[id] is the row of reminder id
    pc,           \* position of the Reminder Poller goroutine
    tickerC,      \* ticker.C (buffer of one) holds a tick
    stopCh,       \* Scheduler.stopCh is closed
    once,         \* Scheduler.once has run
    stops,        \* history: the outcome of every call of Scheduler.Stop
    due,          \* tick(): the slice returned by GetDueReminders
    idx,          \* tick(): position of the range loop in due (1-based)
    nextTime,     \* tick(): the local nextTime
    sent,         \* history: messages the Delivery Sink accepted
    stored,       \* history: occurrences whose store update succeeded
    last,         \* history: the poller's last store or sink call and its outcome
    dpc,          \* position of the Daily Task Scheduler goroutine
    dStopCh,      \* DailyScheduler.stopCh is closed
    dOnce,        \* DailyScheduler.once has run
    dStops,       \* history: the outcome of every call of DailyScheduler.Stop
    dTask,        \* DailyScheduler.Start: nextTask (its name)
    dWake,        \* DailyScheduler.Start: instant at which time.After fires
    bRun,         \* the running task function: its locals and its calls so far
    ran,          \* history: the task functions begun, with clock and deadline
    mpc,          \* position of the shutdown goroutine of main()
    edits,        \* number of reminder edits so far
    cCurrent,     \* calculator: the occurrence that fired (current)
    cRule,        \* calculator: the recurrence rule
    cNow,         \* calculator: time.Now() at the call
    cNext,        \* calculator: the result of calculateNext, nil before the call
    cFires        \* calculator: number of computed occurrences that have fired

storeVars  == <<todos, reminders>>
pollerVars == <<pc, tickerC, stopCh, once, stops, due, idx, nextTime>>
histVars   == <<sent, stored, last>>
dailyVars  == <<dpc, dStopCh, dOnce, dStops, dTask, dWake, bRun, ran>>
calcVars   == <<cCurrent, cRule, cNow, cNext, cFires>>
otherVars  == <<mpc, edits>>
vars == <<now, advances, faults, todos, reminders, pc, tickerC, stopCh, once, stops,
          due, idx, nextTime, sent, stored, last, dpc, dStopCh, dOnce, dStops, dTask,
          dWake, bRun, ran, mpc, edits, cCurrent, cRule, cNow, cNext, cFires>>

\* ------------------------------------------------------------------------
\* Reminder Store (reminder.Repository).
\* ------------------------------------------------------------------------

\* Variant of Create that stores the rule also when it is empty.
CreateKeepsEmptyRule(rems, todoID, remindAt, isRecurring, recurrenceRule) ==
    Append(rems,
           [ID             |-> Len(rems) + 1,
            TodoID         |-> todoID,
            RemindAt       |-> remindAt,
            IsRecurring    |-> isRecurring,
            RecurrenceRule |-> Ptr(recurrenceRule),
            LastFiredAt    |-> Nil,
            IsActive       |-> TRUE])

\* INSERT INTO reminders (todo_id, remind_at, is_recurring, recurrence_rule):
\* id is the next serial, last_fired_at NULL, is_active TRUE.  (created_at,
\* which nothing reads, is left out of the row.)
Create(rems, todoID, remindAt, isRecurring, recurrenceRule) ==
    Append(rems,
           [ID             |-> Len(rems) + 1,
            TodoID         |-> todoID,
            RemindAt       |-> remindAt,
            IsRecurring    |-> isRecurring,
            RecurrenceRule |-> IF recurrenceRule # <<>> THEN Ptr(recurrenceRule) ELSE Nil,
            LastFiredAt    |-> Nil,
            IsActive       |-> TRUE])

\* Variant of IsDue that forgets the is_active condition.
IsDueIgnoringActive(r, tds, t) ==
    /\ r.RemindAt <= t
    /\ r.TodoID \in DOMAIN tds

\* Variant of IsDue that skips the reminders of completed and of
\* soft-deleted todos.
IsDueOfOpenTodo(r, tds, t) ==
    /\ r.RemindAt <= t
    /\ r.IsActive = TRUE
    /\ r.TodoID \in DOMAIN tds
    /\ ~tds[r.TodoID].IsCompleted
    /\ tds[r.TodoID].DeletedAt = Nil

\* WHERE r.remind_at <= NOW() AND r.is_active = TRUE, joined with todos.
\* Variant of IsDue that looks back one poll interval only.
IsDueSinceLastTick(r, tds, t) ==
    r.IsActive /\ r.RemindAt <= t /\ r.RemindAt > t - IntervalSec

IsDue(r, tds, t) ==
    /\ r.RemindAt <= t
    /\ r.IsActive = TRUE
    /\ r.TodoID \in DOMAIN tds

DueIDs(rems, tds, t) == {i \in DOMAIN rems : IsDue(rems[i], tds, t)}

\* ReminderWithTodo: the reminder row with the owning todo's user id.
WithTodo(r, tds) ==
    [ID |-> r.ID, TodoID |-> r.TodoID, RemindAt |-> r.RemindAt,
     IsRecurring |-> r.IsRecurring, RecurrenceRule |-> r.RecurrenceRule,
     LastFiredAt |-> r.LastFiredAt, IsActive |-> r.IsActive,
     TodoUserID |-> tds[r.TodoID].UserID]

\* ORDER BY r.remind_at ASC: rows with equal remind_at come in any order.
OrderedByRemindAt(rems, ids) ==
    {s \in [1..Cardinality(ids) -> ids] :
        /\ \A i, j \in DOMAIN s : i # j => s[i] # s[j]
        /\ \A i, j \in DOMAIN s : i < j => rems[s[i]].RemindAt <= rems[s[j]].RemindAt}

\* The result sets GetDueReminders can return at store time t.
GetDueReminders(rems, tds, t) ==
    {[k \in DOMAIN s |-> WithTodo(rems[s[k]], tds)] :
        s \in OrderedByRemindAt(rems, DueIDs(rems, tds, t))}

\* Variant of UpdateRemindAt that does not record last_fired_at.
UpdateRemindAtOnly(rems, id, next, t) ==
    [i \in DOMAIN rems |->
        IF rems[i].ID = id THEN [rems[i] EXCEPT !.RemindAt = next] ELSE rems[i]]

\* UPDATE reminders SET remind_at = $1, last_fired_at = NOW() WHERE id = $2
UpdateRemindAt(rems, id, next, t) ==
    [i \in DOMAIN rems |->
        IF rems[i].ID = id
        THEN [rems[i] EXCEPT !.RemindAt = next, !.LastFiredAt = Ptr(t)]
        ELSE rems[i]]

\* Variant of Deactivate that records last_fired_at but leaves is_active.
DeactivateKeepsActive(rems, id, t) ==
    [i \in DOMAIN rems |->
        IF rems[i].ID = id THEN [rems[i] EXCEPT !.LastFiredAt = Ptr(t)] ELSE rems[i]]

\* UPDATE reminders SET is_active = FALSE, last_fired_at = NOW() WHERE id = $1
Deactivate(rems, id, t) ==
    [i \in DOMAIN rems |->
        IF rems[i].ID = id
        THEN [rems[i] EXCEPT !.IsActive = FALSE, !.LastFiredAt = Ptr(t)]
        ELSE rems[i]]

\* The history variable last: which call the poller made last (op), for
\* which reminder (id, 0 for the due lookup) and whether it succeeded.
NoCall == [op |-> "none", id |-> 0, ok |-> TRUE]
Call(op, id, ok) == [op |-> op, id |-> id, ok |-> ok]

\* The variable bRun when no task function is running, and when one has
\* returned: task is the function, at the clock it read when it began,
\* year and month the period of the monthly report, listed whether
\* ListActiveUserIDs succeeded, users its result, idx the position of the
\* range loop over users (1-based), step the call the loop is about to
\* make, left the overdue todos of the current user still to be sent, and
\* log the per-user calls made so far with their outcome (n is the number
\* of rows a listing returned).
NoRun ==
    [task |-> "none", at |-> 0, year |-> 0, month |-> 0, listed |-> TRUE,
     users |-> <<>>, idx |-> 0, step |-> "done", left |-> 0, log |-> <<>>]

\* ------------------------------------------------------------------------
\* Initial state: empty tables, NewScheduler() done, Start() not yet running.
\* ------------------------------------------------------------------------

InitAt(t) ==
    /\ now = t
    /\ advances = 0
    /\ faults = 0
    /\ todos = <<>>
    /\ reminders = <<>>
    /\ pc = "init"
    /\ tickerC = FALSE
    /\ stopCh = FALSE
    /\ once = FALSE
    /\ stops = <<>>
    /\ due = <<>>
    /\ idx = 0
    /\ nextTime = 0
    /\ sent = <<>>
    /\ stored = {}
    /\ last = NoCall
    /\ dpc = "init"
    /\ dStopCh = FALSE
    /\ dOnce = FALSE
    /\ dStops = <<>>
    /\ dTask = "none"
    /\ dWake = 0
    /\ bRun = NoRun
    /\ ran = <<>>
    /\ mpc = "running"
    /\ edits = 0

\* No call of the calculator is under way.
CalcIdle ==
    /\ cCurrent = 0
    /\ cRule = <<>>
    /\ cNow = 0
    /\ cNext = Nil
    /\ cFires = 0

Init == InitAt(StartTime) /\ CalcIdle

\* ------------------------------------------------------------------------
\* Environment: the clock, and users adding todos with reminders.
\* ------------------------------------------------------------------------

\* A call that succeeds (ok) or, while the fault budget lasts, fails.
Outcome(ok) ==
    IF ok THEN faults' = faults
          ELSE faults < MaxFaults /\ faults' = faults + 1

\* A ticker exists between time.NewTicker in Start and the deferred
\* ticker.Stop() at its return.
TickerRunning == pc \notin {"init", "returned"}

\* Time passes by d >= interval: the ticker has fired at least once; a tick
\* that finds ticker.C full is dropped.
Advance(d) ==
    /\ advances < MaxAdvances
    /\ advances' = advances + 1
    /\ now' = now + d
    /\ tickerC' = IF TickerRunning THEN TRUE ELSE tickerC
    /\ UNCHANGED <<faults, todos, reminders, pc, stopCh, once, stops, due, idx, nextTime>>
    /\ UNCHANGED histVars
    /\ UNCHANGED dailyVars
    /\ UNCHANGED calcVars
    /\ UNCHANGED otherVars

\* Variant of CreatedTodoID in which the id of the new row is not read back
\* and stays zero.
CreatedTodoIDUnset(tds) == 0

\* todoID, err := s.repo.Create(...): INSERT INTO todos ... RETURNING id, the
\* serial id of the row just inserted after the rows tds.
CreatedTodoID(tds) == Len(tds) + 1

\* todo.Service.Add: create the todo, then, if a reminder was asked for,
\* create its reminder (which the store may refuse: createOk).
Add(userID, hasReminder, remindAt, recurring, createOk) ==
    /\ Len(todos) < MaxTodos
    /\ Outcome(createOk \/ ~hasReminder \/ remindAt = Nil)
    /\ todos' = Append(todos, [ID |-> Len(todos) + 1, UserID |-> userID,
                               IsCompleted |-> FALSE, CompletedAt |-> Nil,
                               DeletedAt |-> Nil])
    /\ reminders' =
         IF hasReminder /\ remindAt # Nil /\ createOk
         THEN Create(reminders, CreatedTodoID(todos), Deref(remindAt),
                     recurring # <<>>, recurring)
         ELSE reminders
    /\ (~createOk => hasReminder /\ remindAt # Nil)
    /\ UNCHANGED <<now, advances>>
    /\ UNCHANGED pollerVars
    /\ UNCHANGED histVars
    /\ UNCHANGED dailyVars
    /\ UNCHANGED calcVars
    /\ UNCHANGED otherVars

\* The active reminders of todo todoID.
ActiveOf(rems, todoID) ==
    {i \in DOMAIN rems : rems[i].TodoID = todoID /\ rems[i].IsActive}

\* ReminderStore.UpsertByTodoID(todoID, remindAt): updates an existing
\* active reminder for the todo or creates a new non-recurring one.
UpsertByTodoID(rems, todoID, remindAt) ==
    IF ActiveOf(rems, todoID) # {}
    THEN [i \in DOMAIN rems |->
            IF i \in ActiveOf(rems, todoID)
            THEN [rems[i] EXCEPT !.RemindAt = remindAt]
            ELSE rems[i]]
    ELSE Create(rems, todoID, remindAt, FALSE, <<>>)

\* todo.Service.Edit of the todo that FindBySearch returns: update its title
\* and due date, then, if a new reminder time was given, upsert the todo's
\* reminder.  ok: every call to the store succeeds; a failed call returns
\* with the reminders as they were.
Edit(todoID, newRemindAt, ok) ==
    /\ edits < MaxEdits
    /\ edits' = edits + 1
    /\ Outcome(ok)
    /\ todoID \in DOMAIN todos
    /\ todos[todoID].DeletedAt = Nil
    /\ reminders' =
         IF ok /\ newRemindAt # Nil
         THEN UpsertByTodoID(reminders, todoID, Deref(newRemindAt))
         ELSE reminders
    /\ UNCHANGED <<now, advances, todos, mpc>>
    /\ UNCHANGED pollerVars
    /\ UNCHANGED histVars
    /\ UNCHANGED dailyVars
    /\ UNCHANGED calcVars

\* todo.Service.Complete of the todo that FindBySearch returns (a todo that
\* is not deleted), when it is not completed yet: UPDATE todos SET
\* is_completed = TRUE, completed_at = NOW() WHERE id = $1.
Complete(todoID, ok) ==
    /\ Outcome(ok)
    /\ todoID \in DOMAIN todos
    /\ todos[todoID].DeletedAt = Nil
    /\ ~todos[todoID].IsCompleted
    /\ todos' = IF ok
                THEN [todos EXCEPT ![todoID].IsCompleted = TRUE,
                                   ![todoID].CompletedAt = Ptr(now)]
                ELSE todos
    /\ UNCHANGED <<now, advances, reminders>>
    /\ UNCHANGED pollerVars
    /\ UNCHANGED histVars
    /\ UNCHANGED dailyVars
    /\ UNCHANGED calcVars
    /\ UNCHANGED otherVars

\* The todos the hourly cleanup soft-deletes at time t: completed a day ago
\* or earlier and not deleted yet.
CompletedOlderThanADay(tds, t) ==
    {i \in DOMAIN tds : /\ tds[i].IsCompleted
                        /\ tds[i].CompletedAt # Nil
                        /\ Deref(tds[i].CompletedAt) <= t - 24 * SecPerHour
                        /\ tds[i].DeletedAt = Nil}

\* todo.Service.CleanupCompletedTodos, run by the cleanup goroutine of
\* main() when there is something to delete: UPDATE todos SET deleted_at =
\* NOW() WHERE is_completed = TRUE AND completed_at <= $1 AND deleted_at IS
\* NULL.
CleanupCompletedTodos(ok) ==
    /\ Outcome(ok)
    /\ CompletedOlderThanADay(todos, now) # {}
    /\ todos' = IF ok
                THEN [i \in DOMAIN todos |->
                        IF i \in CompletedOlderThanADay(todos, now)
                        THEN [todos[i] EXCEPT !.DeletedAt = Ptr(now)]
                        ELSE todos[i]]
                ELSE todos
    /\ UNCHANGED <<now, advances, reminders>>
    /\ UNCHANGED pollerVars
    /\ UNCHANGED histVars
    /\ UNCHANGED dailyVars
    /\ UNCHANGED calcVars
    /\ UNCHANGED otherVars

\* ------------------------------------------------------------------------
\* Reminder Poller (reminder.Scheduler).
\* ------------------------------------------------------------------------

\* go scheduler.Start(): the ticker is created, the loop reaches its select.
Start ==
    /\ pc = "init"
    /\ pc' = "select"
    /\ tickerC' = FALSE
    /\ UNCHANGED <<now, advances, faults, todos, reminders, stopCh, once, stops, due, idx, nextTime>>
    /\ UNCHANGED histVars
    /\ UNCHANGED dailyVars
    /\ UNCHANGED calcVars
    /\ UNCHANGED otherVars

\* Variant of StopOutcome without the sync.Once: every call closes.
StopOutcomeNoOnce(done, closed) == IF closed THEN "panic" ELSE "closed"

\* What one call of Stop does, given whether the Once has already run and
\* whether the channel is already closed: once.Do skips a function that has
\* run; close() of an open channel closes it and of a closed channel panics.
StopOutcome(done, closed) ==
    IF done THEN "skipped" ELSE IF closed THEN "panic" ELSE "closed"

\* Scheduler.Stop: s.once.Do(func() { close(s.stopCh) })
Stop ==
    /\ Len(stops) < MaxStops
    /\ LET outcome == StopOutcome(once, stopCh)
       IN  /\ stops' = Append(stops, outcome)
           /\ once' = TRUE
           /\ stopCh' = (stopCh \/ outcome = "closed")
    /\ UNCHANGED <<now, advances, faults, todos, reminders, pc, tickerC, due, idx, nextTime>>
    /\ UNCHANGED histVars
    /\ UNCHANGED dailyVars
    /\ UNCHANGED calcVars
    /\ UNCHANGED otherVars

\* Variant of SelectTick in which the tick runs in a goroutine of its own
\* (go s.tick()): the loop takes the next ticker event while a tick is
\* still in progress.
SelectTickSpawns ==
    /\ pc \notin {"init", "returned"}
    /\ tickerC
    /\ tickerC' = FALSE
    /\ pc' = "GetDueReminders"
    /\ UNCHANGED <<now, advances, faults, todos, reminders, stopCh, once, stops, due, idx, nextTime>>
    /\ UNCHANGED histVars
    /\ UNCHANGED dailyVars
    /\ UNCHANGED calcVars
    /\ UNCHANGED otherVars

\* select: case <-ticker.C: s.tick()
SelectTick ==
    /\ pc = "select"
    /\ tickerC
    /\ tickerC' = FALSE
    /\ pc' = "GetDueReminders"
    /\ UNCHANGED <<now, advances, faults, todos, reminders, stopCh, once, stops, due, idx, nextTime>>
    /\ UNCHANGED histVars
    /\ UNCHANGED dailyVars
    /\ UNCHANGED calcVars
    /\ UNCHANGED otherVars

\* Variant of SelectStop that leaves the select but not the loop of Start.
SelectStopStaysInLoop ==
    /\ pc = "select"
    /\ stopCh
    /\ pc' = "select"
    /\ UNCHANGED <<now, advances, faults, todos, reminders, tickerC, stopCh, once, stops, due, idx, nextTime>>
    /\ UNCHANGED histVars
    /\ UNCHANGED dailyVars
    /\ UNCHANGED calcVars
    /\ UNCHANGED otherVars

\* select: case <-s.stopCh: return
SelectStop ==
    /\ pc = "select"
    /\ stopCh
    /\ pc' = "returned"
    /\ UNCHANGED <<now, advances, faults, todos, reminders, tickerC, stopCh, once, stops, due, idx, nextTime>>
    /\ UNCHANGED histVars
    /\ UNCHANGED dailyVars
    /\ UNCHANGED calcVars
    /\ UNCHANGED otherVars

\* Variant of LoopNext that leaves the loop after the first reminder.
LoopNextReturns(i, n) ==
    IF i = 0 /\ n > 0 THEN [pc |-> "Send", idx |-> 1, done |-> FALSE]
                      ELSE [pc |-> "select", idx |-> 0, done |-> TRUE]

\* Where the range loop of tick() goes after the item at position i of a
\* slice of length n: the next item, or return to the select of Start.
LoopNext(i, n) ==
    IF i < n THEN [pc |-> "Send", idx |-> i + 1, done |-> FALSE]
             ELSE [pc |-> "select", idx |-> 0, done |-> TRUE]

\* Variant of OnReadError in which the error ends the loop of Start.
OnReadErrorExits == "returned"

\* Where the poller is after tick() has returned on a read error: back at
\* the select of Start.
OnReadError == "select"

\* tick(): reminders, err := s.repo.GetDueReminders(ctx); on error return.
TickGetDue(ok) ==
    /\ Outcome(ok)
    /\ pc = "GetDueReminders"
    /\ IF ok
       THEN \E rows \in GetDueReminders(reminders, todos, now) :
               LET nx == LoopNext(0, Len(rows))
               IN  /\ pc' = nx.pc
                   /\ idx' = nx.idx
                   /\ due' = IF nx.done THEN <<>> ELSE rows
       ELSE /\ pc' = OnReadError
            /\ UNCHANGED <<due, idx>>
    /\ last' = Call("GetDueReminders", 0, ok)
    /\ UNCHANGED <<now, advances, todos, reminders, tickerC, stopCh, once, stops, nextTime>>
    /\ UNCHANGED <<sent, stored>>
    /\ UNCHANGED dailyVars
    /\ UNCHANGED calcVars
    /\ UNCHANGED otherVars

\* Variant of AfterSend without the continue on a delivery error.
AfterSendNoContinue(r, ok) ==
    IF r.IsRecurring /\ r.RecurrenceRule # Nil THEN "UpdateRemindAt" ELSE "Deactivate"

\* What tick() does with reminder r once s.bot.Send has returned: continue
\* with the next reminder on an error, else reschedule a recurring reminder
\* that has a rule and deactivate any other.
AfterSend(r, ok) ==
    IF ~ok THEN "continue"
    ELSE IF r.IsRecurring /\ r.RecurrenceRule # Nil THEN "UpdateRemindAt"
    ELSE "Deactivate"

\* tick(): s.bot.Send(user, msg) for due[idx], and on success the choice of
\* the state transition; nextTime is computed from the row as it was read.
TickSend(ok) ==
    /\ Outcome(ok)
    /\ pc = "Send"
    /\ LET r    == due[idx]
           then == AfterSend(r, ok)
           nx   == LoopNext(idx, Len(due))
       IN  /\ sent' = IF ok
                      THEN Append(sent, [ID |-> r.ID, UserID |-> r.TodoUserID,
                                         RemindAt |-> r.RemindAt])
                      ELSE sent
           /\ last' = Call("Send", r.ID, ok)
           /\ IF then = "continue"
              THEN /\ pc' = nx.pc
                   /\ idx' = nx.idx
                   /\ due' = IF nx.done THEN <<>> ELSE due
                   /\ UNCHANGED nextTime
              ELSE /\ pc' = then
                   /\ nextTime' = IF then = "UpdateRemindAt"
                                  THEN calculateNext(r.RemindAt, Deref(r.RecurrenceRule),
                                                     TZOffset, now)
                                  ELSE nextTime
                   /\ UNCHANGED <<due, idx>>
    /\ UNCHANGED <<now, advances, todos, reminders, tickerC, stopCh, once, stops>>
    /\ UNCHANGED stored
    /\ UNCHANGED dailyVars
    /\ UNCHANGED calcVars
    /\ UNCHANGED otherVars

\* tick(): s.repo.UpdateRemindAt(ctx, r.ID, nextTime); an error is logged.
TickUpdateRemindAt(ok) ==
    /\ Outcome(ok)
    /\ pc = "UpdateRemindAt"
    /\ LET r  == due[idx]
           nx == LoopNext(idx, Len(due))
       IN  /\ reminders' = IF ok THEN UpdateRemindAt(reminders, r.ID, nextTime, now)
                                 ELSE reminders
           /\ stored' = IF ok THEN stored \cup {[ID |-> r.ID, RemindAt |-> r.RemindAt]}
                              ELSE stored
           /\ last' = Call("UpdateRemindAt", r.ID, ok)
           /\ pc' = nx.pc
           /\ idx' = nx.idx
           /\ due' = IF nx.done THEN <<>> ELSE due
    /\ nextTime' = 0
    /\ UNCHANGED <<now, advances, todos, tickerC, stopCh, once, stops>>
    /\ UNCHANGED sent
    /\ UNCHANGED dailyVars
    /\ UNCHANGED calcVars
    /\ UNCHANGED otherVars

\* tick(): s.repo.Deactivate(ctx, r.ID); an error is logged.
TickDeactivate(ok) ==
    /\ Outcome(ok)
    /\ pc = "Deactivate"
    /\ LET r  == due[idx]
           nx == LoopNext(idx, Len(due))
       IN  /\ reminders' = IF ok THEN Deactivate(reminders, r.ID, now) ELSE reminders
           /\ stored' = IF ok THEN stored \cup {[ID |-> r.ID, RemindAt |-> r.RemindAt]}
                              ELSE stored
           /\ last' = Call("Deactivate", r.ID, ok)
           /\ pc' = nx.pc
           /\ idx' = nx.idx
           /\ due' = IF nx.done THEN <<>> ELSE due
    /\ UNCHANGED <<now, advances, todos, tickerC, stopCh, once, stops, nextTime>>
    /\ UNCHANGED sent
    /\ UNCHANGED dailyVars
    /\ UNCHANGED calcVars
    /\ UNCHANGED otherVars

\* The process exits (crash or shutdown) and main() runs again: everything
\* in memory is as after construction, the tables are as they were.
Restart ==
    /\ Outcome(FALSE)
    /\ pc # "init" \/ dpc # "init"
    /\ pc' = "init"
    /\ tickerC' = FALSE
    /\ stopCh' = FALSE
    /\ once' = FALSE
    /\ stops' = <<>>
    /\ due' = <<>>
    /\ idx' = 0
    /\ nextTime' = 0
    /\ last' = NoCall
    /\ dpc' = "init"
    /\ dStopCh' = FALSE
    /\ dOnce' = FALSE
    /\ dStops' = <<>>
    /\ dTask' = "none"
    /\ dWake' = 0
    /\ bRun' = NoRun
    /\ mpc' = "running"
    /\ UNCHANGED <<now, advances, todos, reminders>>
    /\ UNCHANGED <<sent, stored>>
    /\ UNCHANGED <<ran, edits>>
    /\ UNCHANGED calcVars

\* ------------------------------------------------------------------------
\* Daily Task Scheduler (bot.DailyScheduler).
\* ------------------------------------------------------------------------

\* The roster of Start().
tasks ==
    << [hour |-> 7,  minute |-> 30, name |-> "daily_briefing"],
       [hour |-> 8,  minute |-> 0,  name |-> "monthly_report"],
       [hour |-> 19, minute |-> 0,  name |-> "overdue_followup"] >>

\* The roster of Start() in internal/bot/daily_scheduler.go.
tasksOld ==
    << [hour |-> 7,  minute |-> 30, name |-> "daily_briefing"],
       [hour |-> 19, minute |-> 0,  name |-> "overdue_followup"] >>

\* Variant of nextFirstOfMonth that takes today also at the target time.
nextFirstOfMonthNotBefore(t, hour, minute) ==
    LET target == Date(Year(t, TZOffset), Month(t, TZOffset), 1, hour, minute, 0, TZOffset)
    IN  IF Day(t, TZOffset) = 1 /\ target >= t
        THEN target
        ELSE Date(Year(t, TZOffset), Month(t, TZOffset) + 1, 1, hour, minute, 0, TZOffset)

\* nextFirstOfMonth(now, hour, minute): today if it is the 1st and the time
\* is still ahead, else the 1st of next month.
nextFirstOfMonth(t, hour, minute) ==
    LET target == Date(Year(t, TZOffset), Month(t, TZOffset), 1, hour, minute, 0, TZOffset)
    IN  IF Day(t, TZOffset) = 1 /\ target > t
        THEN target
        ELSE Date(Year(t, TZOffset), Month(t, TZOffset) + 1, 1, hour, minute, 0, TZOffset)

\* Variant of taskTarget that takes today also at the target time.
taskTargetNotBefore(t, task) ==
    IF task.name = "monthly_report"
    THEN nextFirstOfMonth(t, task.hour, task.minute)
    ELSE LET target == Date(Year(t, TZOffset), Month(t, TZOffset), Day(t, TZOffset),
                            task.hour, task.minute, 0, TZOffset)
         IN  IF target < t THEN AddDate(target, TZOffset, 0, 0, 1) ELSE target

\* The deadline findNextTask computes for one task at time t.
taskTarget(t, task) ==
    IF task.name = "monthly_report"
    THEN nextFirstOfMonth(t, task.hour, task.minute)
    ELSE LET target == Date(Year(t, TZOffset), Month(t, TZOffset), Day(t, TZOffset),
                            task.hour, task.minute, 0, TZOffset)
         IN  IF ~(target > t) THEN AddDate(target, TZOffset, 0, 0, 1) ELSE target

\* findNextTask(now, tasks): the loop over the roster from position k with
\* the best task and duration so far; a later task wins only when strictly
\* sooner.
\* Variant of findNextTaskFrom in which every task replaces the best so far.
RECURSIVE findNextTaskFromLast(_, _, _, _, _)
findNextTaskFromLast(t, roster, k, best, first) ==
    IF k > Len(roster) THEN best
    ELSE findNextTaskFromLast(t, roster, k + 1,
                              [task |-> roster[k],
                               duration |-> taskTarget(t, roster[k]) - t], FALSE)

RECURSIVE findNextTaskFrom(_, _, _, _, _)
findNextTaskFrom(t, roster, k, best, first) ==
    IF k > Len(roster) THEN best
    ELSE LET d == taskTarget(t, roster[k]) - t
         IN  IF first \/ d < best.duration
             THEN findNextTaskFrom(t, roster, k + 1,
                                   [task |-> roster[k], duration |-> d], FALSE)
             ELSE findNextTaskFrom(t, roster, k + 1, best, first)

findNextTask(t, roster) ==
    findNextTaskFrom(t, roster, 1,
                     [task |-> [hour |-> 0, minute |-> 0, name |-> ""], duration |-> 0],
                     TRUE)

\* SELECT DISTINCT user_id FROM todos WHERE deleted_at IS NULL: the users
\* that own a todo, in any order.
ListActiveUserIDs(tds) ==
    LET ids == {tds[i].UserID : i \in {j \in DOMAIN tds : tds[j].DeletedAt = Nil}}
    IN  {us \in [1..Cardinality(ids) -> ids] :
            \A i, j \in DOMAIN us : i # j => us[i] # us[j]}

\* The first call a task function makes for each user.
FirstCall(task) ==
    CASE task = "daily_briefing" -> "List"
      [] task = "overdue_followup" -> "ListOverdueByUser"
      [] task = "monthly_report" -> "MonthlyReport"

\* Variant of AfterCall in which an error ends the task function.
AfterCallReturnsOnError(op, ok, n, left) ==
    IF ~ok THEN "return"
    ELSE CASE op = "List" -> "ListActiveByUser"
           [] op = "ListActiveByUser" -> "Send"
           [] op = "ListOverdueByUser" -> IF n = 0 THEN "continue" ELSE "Send"
           [] op = "MonthlyReport" -> "Send"
           [] op = "Send" -> IF left > 1 THEN "Send" ELSE "continue"

\* What the range loop over the users does after call op has returned (n
\* rows, for a listing; left is the number of messages still to send to the
\* user before this call): make the next call for the same user, or
\* continue with the next user.  A failed listing of todos, of overdue
\* todos or of the report skips the user, a failed listing of reminders
\* does not (reminders = nil), and a failed Send goes on with the next
\* message.
AfterCall(op, ok, n, left) ==
    CASE op = "List" -> IF ok THEN "ListActiveByUser" ELSE "continue"
      [] op = "ListActiveByUser" -> "Send"
      [] op = "ListOverdueByUser" -> IF ok /\ n > 0 THEN "Send" ELSE "continue"
      [] op = "MonthlyReport" -> IF ok THEN "Send" ELSE "continue"
      [] op = "Send" -> IF left > 1 THEN "Send" ELSE "continue"

\* prevMonth := now.AddDate(0, -1, 0); year := prevMonth.Year(); month :=
\* prevMonth.Month(), with now in the scheduler's timezone.
ReportPeriod(t) ==
    LET prevMonth == AddDate(t, TZOffset, 0, -1, 0)
    IN  [year |-> Year(prevMonth, TZOffset), month |-> Month(prevMonth, TZOffset)]

\* The task function as it enters its range loop over the users us (none
\* when listing them failed).
BeginRun(task, t, ok, us) ==
    [task   |-> task,
     at     |-> t,
     year   |-> IF task = "monthly_report" THEN ReportPeriod(t).year ELSE 0,
     month  |-> IF task = "monthly_report" THEN ReportPeriod(t).month ELSE 0,
     listed |-> ok,
     users  |-> us,
     idx    |-> IF us = <<>> THEN 0 ELSE 1,
     step   |-> IF us = <<>> THEN "done" ELSE FirstCall(task),
     left   |-> 0,
     log    |-> <<>>]

\* The number of todos of user u: ListOverdueByUser returns some of them.
TodoCount(tds, u) == Cardinality({i \in DOMAIN tds : tds[i].UserID = u})

\* One call of the running task function for the current user: a listing
\* (which returns n rows) or a Send, which succeeds or fails.
TaskCall(ok, n) ==
    /\ Outcome(ok)
    /\ dpc = "run"
    /\ bRun.step # "done"
    /\ LET u    == bRun.users[bRun.idx]
           op   == bRun.step
           then == AfterCall(op, ok, n, bRun.left)
           logd == Append(bRun.log, [user |-> u, op |-> op, ok |-> ok, n |-> n])
       IN  /\ n = 0 \/ (ok /\ op = "ListOverdueByUser" /\ n <= TodoCount(todos, u))
           /\ bRun' =
                CASE then = "continue" /\ bRun.idx < Len(bRun.users) ->
                        [bRun EXCEPT !.idx = bRun.idx + 1, !.step = FirstCall(bRun.task),
                                     !.left = 0, !.log = logd]
                  [] then = "continue" /\ bRun.idx >= Len(bRun.users) ->
                        [bRun EXCEPT !.step = "done", !.left = 0, !.log = logd]
                  [] then = "return" ->
                        [bRun EXCEPT !.step = "done", !.left = 0, !.log = logd]
                  [] OTHER ->
                        [bRun EXCEPT !.step = then,
                                     !.left = IF op = "Send" THEN bRun.left - 1
                                              ELSE IF op = "ListOverdueByUser" THEN n
                                              ELSE 1,
                                     !.log = logd]
    /\ UNCHANGED <<dpc, dStopCh, dOnce, dStops, dTask, dWake, ran>>
    /\ UNCHANGED <<now, advances>>
    /\ UNCHANGED storeVars
    /\ UNCHANGED pollerVars
    /\ UNCHANGED histVars
    /\ UNCHANGED calcVars
    /\ UNCHANGED otherVars

\* The top of the loop of Start(): read the clock, pick the next task and
\* arm time.After(waitDuration).
DailyArm ==
    LET nt == findNextTask(now, tasks)
    IN  /\ dTask' = nt.task.name
        /\ dWake' = now + nt.duration
        /\ dpc' = "select"

\* go dailyScheduler.Start()
DailyStart ==
    /\ dpc = "init"
    /\ DailyArm
    /\ UNCHANGED <<dStopCh, dOnce, dStops, bRun, ran>>
    /\ UNCHANGED <<now, advances, faults>>
    /\ UNCHANGED storeVars
    /\ UNCHANGED pollerVars
    /\ UNCHANGED histVars
    /\ UNCHANGED calcVars
    /\ UNCHANGED otherVars

\* select: case <-time.After(waitDuration): nextTask.fn() begins, reads the
\* clock (sendMonthlyReport: the report is for the month of
\* now.AddDate(0, -1, 0)) and lists the users; if that fails it returns.
DailySelectTimer(ok) ==
    /\ Outcome(ok)
    /\ dpc = "select"
    /\ now >= dWake
    /\ dpc' = "run"
    /\ \E us \in ListActiveUserIDs(todos) :
            bRun' = BeginRun(dTask, now, ok, IF ok THEN us ELSE <<>>)
    /\ ran' = Append(ran, [name |-> dTask, at |-> now, deadline |-> dWake])
    /\ UNCHANGED <<dStopCh, dOnce, dStops, dTask, dWake>>
    /\ UNCHANGED <<now, advances>>
    /\ UNCHANGED storeVars
    /\ UNCHANGED pollerVars
    /\ UNCHANGED histVars
    /\ UNCHANGED calcVars
    /\ UNCHANGED otherVars

\* Variant of DailySelectStop in which the daily loop listens on the stop
\* channel of the Reminder Poller, as if the two loops shared one channel.
DailySelectStopShared ==
    /\ dpc = "select"
    /\ stopCh
    /\ dpc' = "returned"
    /\ UNCHANGED <<dStopCh, dOnce, dStops, dTask, dWake, bRun, ran>>
    /\ UNCHANGED <<now, advances, faults>>
    /\ UNCHANGED storeVars
    /\ UNCHANGED pollerVars
    /\ UNCHANGED histVars
    /\ UNCHANGED calcVars
    /\ UNCHANGED otherVars

\* select: case <-s.stopCh: return
DailySelectStop ==
    /\ dpc = "select"
    /\ dStopCh
    /\ dpc' = "returned"
    /\ UNCHANGED <<dStopCh, dOnce, dStops, dTask, dWake, bRun, ran>>
    /\ UNCHANGED <<now, advances, faults>>
    /\ UNCHANGED storeVars
    /\ UNCHANGED pollerVars
    /\ UNCHANGED histVars
    /\ UNCHANGED calcVars
    /\ UNCHANGED otherVars

\* nextTask.fn() returns and the loop starts over.
DailyTaskDone ==
    /\ dpc = "run"
    /\ bRun.step = "done"
    /\ DailyArm
    /\ bRun' = NoRun
    /\ UNCHANGED <<dStopCh, dOnce, dStops, ran>>
    /\ UNCHANGED <<now, advances, faults>>
    /\ UNCHANGED storeVars
    /\ UNCHANGED pollerVars
    /\ UNCHANGED histVars
    /\ UNCHANGED calcVars
    /\ UNCHANGED otherVars

\* DailyScheduler.Stop: s.once.Do(func() { close(s.stopCh) })
DailyStop ==
    /\ Len(dStops) < MaxStops
    /\ LET outcome == StopOutcome(dOnce, dStopCh)
       IN  /\ dStops' = Append(dStops, outcome)
           /\ dOnce' = TRUE
           /\ dStopCh' = (dStopCh \/ outcome = "closed")
    /\ UNCHANGED <<dpc, dTask, dWake, bRun, ran>>
    /\ UNCHANGED <<now, advances, faults>>
    /\ UNCHANGED storeVars
    /\ UNCHANGED pollerVars
    /\ UNCHANGED histVars
    /\ UNCHANGED calcVars
    /\ UNCHANGED otherVars

\* Time passes until the deadline of the sleeping Daily Task Scheduler.
AdvanceToDeadline ==
    /\ dpc = "select"
    /\ dWake - now >= IntervalSec
    /\ Advance(dWake - now)

Next ==
    \/ \E d \in AdvanceSteps : Advance(d)
    \/ \E c \in AddChoices, createOk \in BOOLEAN :
            Add(c.userID, c.hasReminder, c.remindAt, c.recurring, createOk)
    \/ Start
    \/ Stop
    \/ SelectTick
    \/ SelectStop
    \/ \E ok \in BOOLEAN : TickGetDue(ok)
    \/ \E ok \in BOOLEAN : TickSend(ok)
    \/ \E ok \in BOOLEAN : TickUpdateRemindAt(ok)
    \/ \E ok \in BOOLEAN : TickDeactivate(ok)
    \/ Restart

Spec == Init /\ [][Next]_vars

\* The poller keeping up with its ticker: a tick is over before the next
\* interval has passed, so the clock advances only while the loop waits in
\* its select with ticker.C empty (or has returned).
PollerIdle == (pc = "select" /\ ~tickerC) \/ pc = "returned"

LiveAdvance == PollerIdle /\ \E d \in AdvanceSteps : Advance(d)

PollerStep ==
    \/ Start
    \/ SelectTick
    \/ SelectStop
    \/ \E ok \in BOOLEAN : TickGetDue(ok)
    \/ \E ok \in BOOLEAN : TickSend(ok)
    \/ \E ok \in BOOLEAN : TickUpdateRemindAt(ok)
    \/ \E ok \in BOOLEAN : TickDeactivate(ok)

\* The requests for a single-shot and for a daily reminder due one interval
\* after the start.
LiveAddChoices ==
    {c \in AddChoices : /\ c.hasReminder
                        /\ Deref(c.remindAt) = StartTime + IntervalSec
                        /\ c.recurring \in {Nil, RuleDaily}}

LiveNext ==
    \/ LiveAdvance
    \/ \E c \in LiveAddChoices, createOk \in BOOLEAN :
            Add(c.userID, c.hasReminder, c.remindAt, c.recurring, createOk)
    \/ (~once /\ Stop)
    \/ PollerStep
    \/ Restart

\* The goroutine of the poller is scheduled and time passes; calls fail at
\* most MaxFaults times; shutdown calls Stop once.
LiveSpec ==
    /\ Init
    /\ [][LiveNext]_vars
    /\ WF_vars(PollerStep)
    /\ WF_vars(LiveAdvance)

\* The two loops and their stop signals, over empty tables.
LoopsNext ==
    \/ \E d \in AdvanceSteps : Advance(d)
    \/ AdvanceToDeadline
    \/ Start
    \/ Stop
    \/ SelectTick
    \/ SelectStop
    \/ \E ok \in BOOLEAN : TickGetDue(ok)
    \/ DailyStart
    \/ DailyStop
    \/ \E ok \in BOOLEAN : DailySelectTimer(ok)
    \/ DailySelectStop
    \/ DailyTaskDone

LoopsSpec == Init /\ [][LoopsNext]_vars

\* Both goroutines are scheduled, a tick and a task return, and a select
\* whose stop case is ready again and again takes it at some point (Go
\* chooses uniformly among the ready cases).  Nothing makes time pass.
LoopsLiveSpec ==
    /\ Init
    /\ [][LoopsNext]_vars
    /\ WF_vars(Start)
    /\ WF_vars(\E ok \in BOOLEAN : TickGetDue(ok))
    /\ SF_vars(SelectStop)
    /\ WF_vars(DailyStart)
    /\ WF_vars(DailyTaskDone)
    /\ SF_vars(DailySelectStop)

\* ------------------------------------------------------------------------
\* The recurrence calculator on its own: calculateNext applied to bounded
\* sets of occurrences, rules and clock readings, and applied again when the
\* occurrence it computed has fired.
\* ------------------------------------------------------------------------

\* Number of computed occurrences that fire in one run.
MaxFires == 2

\* An instant given by its civil date and time in the user's timezone.
Local(year, month, day, hour, min) == Date(year, month, day, hour, min, 0, TZOffset)

\* Occurrences that fire: a Monday 05:00 (Sunday 22:00 UTC), a Thursday
\* 07:00, the last evening of January and the first minutes of 31 December.
Currents ==
    { Local(2026, 2, 2, 5, 0),
      Local(2026, 2, 5, 7, 0),
      Local(2026, 1, 31, 23, 30),
      Local(2026, 12, 31, 0, 15) }

ValidRules ==
    { RuleDaily,
      PrefixWeekly \o <<"m", "o", "n">>,
      PrefixWeekly \o <<"J", "u", "m", "a", "t">>,
      PrefixMonthly \o <<"5">>,
      PrefixMonthly \o <<"3", "1">>,
      PrefixYearly \o <<"2", "-", "5">>,
      PrefixYearly \o <<"1", "2", "-", "3", "1">> }

\* Rules with an unparseable day token, a non-numeric or out-of-range
\* number, the wrong shape, or of no known kind.
MalformedRules ==
    { PrefixWeekly \o <<"x", "y", "z">>,
      PrefixMonthly \o <<"a", "b">>,
      PrefixMonthly \o <<"3", "2">>,
      PrefixMonthly \o <<"0">>,
      PrefixYearly \o <<"1", "3", "-", "1">>,
      PrefixYearly \o <<"2", "-", "0">>,
      PrefixYearly \o <<"2">>,
      PrefixYearly \o <<"1", "-", "2", "-", "3">>,
      <<"h", "o", "u", "r", "l", "y">>,
      <<>> }

Rules == ValidRules \cup MalformedRules

\* How long after its remindAt the occurrence fires: at once, one tick
\* later, a day, two days and an hour, about a fortnight, forty days, a
\* year of 365 days, four hundred days.
Delays ==
    {0, IntervalSec, SecPerDay, 2 * SecPerDay + SecPerHour,
     15 * SecPerDay - 7 * SecPerHour, 40 * SecPerDay, 365 * SecPerDay,
     400 * SecPerDay}

\* The same for a computed occurrence: one tick later or after eight days.
FireDelays == {0, IntervalSec, 8 * SecPerDay}

CalcInit ==
    /\ InitAt(StartTime)
    /\ cCurrent \in Currents
    /\ cRule \in Rules
    /\ cNow \in {cCurrent + d : d \in Delays}
    /\ cNext = Nil
    /\ cFires = 0

\* tick(): nextTime := calculateNext(r.RemindAt, *r.RecurrenceRule, s.timezone)
Compute ==
    /\ cNext = Nil
    /\ cNext' = Ptr(calculateNext(cCurrent, cRule, TZOffset, cNow))
    /\ UNCHANGED <<cCurrent, cRule, cNow, cFires>>
    /\ UNCHANGED <<now, advances, faults>>
    /\ UNCHANGED storeVars
    /\ UNCHANGED pollerVars
    /\ UNCHANGED histVars
    /\ UNCHANGED dailyVars
    /\ UNCHANGED otherVars

\* The computed occurrence is stored as remindAt, comes due and fires d
\* after that (or after the previous firing, if it was due already).
Fire(d) ==
    /\ cNext # Nil
    /\ cFires < MaxFires
    /\ cFires' = cFires + 1
    /\ cCurrent' = Deref(cNext)
    /\ cNow' = (IF Deref(cNext) > cNow THEN Deref(cNext) ELSE cNow) + d
    /\ cNext' = Nil
    /\ UNCHANGED cRule
    /\ UNCHANGED <<now, advances, faults>>
    /\ UNCHANGED storeVars
    /\ UNCHANGED pollerVars
    /\ UNCHANGED histVars
    /\ UNCHANGED dailyVars
    /\ UNCHANGED otherVars

CalcNext ==
    \/ Compute
    \/ \E d \in FireDelays : Fire(d)

CalcSpec == CalcInit /\ [][CalcNext]_vars

\* ------------------------------------------------------------------------
\* The Daily Task Scheduler started at chosen instants.
\* ------------------------------------------------------------------------

\* Evenings, instants exactly at and around a task's time, the first of a
\* month, and the last day of the year.
DailyNows ==
    { StartTime,
      Local(2026, 2, 14, 20, 0),
      Local(2026, 2, 2, 7, 30),
      Local(2026, 2, 2, 19, 0),
      Local(2026, 3, 1, 7, 59),
      Local(2026, 3, 1, 8, 0),
      Local(2026, 3, 1, 8, 1),
      Local(2026, 12, 1, 7, 0),
      Local(2026, 12, 31, 19, 0) }

DailyInit == (\E t \in DailyNows : InitAt(t)) /\ CalcIdle

DailyNext ==
    \/ \E d \in AdvanceSteps : Advance(d)
    \/ AdvanceToDeadline
    \/ DailyStart
    \/ DailyStop
    \/ \E ok \in BOOLEAN : DailySelectTimer(ok)
    \/ DailySelectStop
    \/ DailyTaskDone

DailySpec == DailyInit /\ [][DailyNext]_vars

\* ------------------------------------------------------------------------
\* Steps of the poller, recognised from the history variable last.
\* ------------------------------------------------------------------------

PollerMoved == pc' # pc \/ idx' # idx

ReadStep(ok) ==
    /\ pc = "GetDueReminders"
    /\ PollerMoved
    /\ last' = Call("GetDueReminders", 0, ok)

SendStep(ok) ==
    /\ pc = "Send"
    /\ PollerMoved
    /\ last' = Call("Send", due[idx].ID, ok)

WriteStep(ok) ==
    /\ pc \in {"UpdateRemindAt", "Deactivate"}
    /\ PollerMoved
    /\ last' = Call(pc, due[idx].ID, ok)

\* The range loop of tick() goes on: to the next reminder of the slice, or
\* back to the select of Start when there is none.
LoopGoesOn ==
    IF idx < Len(due)
    THEN pc' = "Send" /\ idx' = idx + 1 /\ due' = due
    ELSE pc' = "select"

\* The ids in the slice a successful due lookup has just returned.
ReturnedIDs == IF pc' = "Send" THEN {due'[k].ID : k \in DOMAIN due'} ELSE {}

\* Some row that exists before and after the step differs.
RowChanged(i) == i \in DOMAIN reminders /\ reminders'[i] # reminders[i]

\* ------------------------------------------------------------------------
\* Properties.
\* ------------------------------------------------------------------------

\* C1: the due lookup returns exactly the reminders that are active and
\* whose remindAt is not after the current time: none that is inactive or
\* has remindAt > now, and every active one with remindAt <= now.
C1_DueLookupExact ==
    [][ReadStep(TRUE) =>
          ReturnedIDs = {i \in DOMAIN reminders :
                            reminders[i].IsActive /\ reminders[i].RemindAt <= now}]_vars

\* A lookup has just returned a reminder that came due at this very instant
\* and left out an active one that lies in the future.
C1_Witness ==
    /\ pc = "Send" /\ idx = 1
    /\ last = Call("GetDueReminders", 0, TRUE)
    /\ \E k \in DOMAIN due : due[k].RemindAt = now
    /\ \E j \in DOMAIN reminders :
          /\ reminders[j].IsActive /\ reminders[j].RemindAt > now
          /\ \A k \in DOMAIN due : due[k].ID # j

\* C2: when the delivery of a due reminder fails, the stored reminders are
\* left as they are and the tick goes on to the next due reminder; the
\* poller changes a reminder's row only directly after a successful
\* delivery of that reminder in the same tick.
C2_FailedDeliveryKeepsState ==
    [][/\ SendStep(FALSE) => (reminders' = reminders /\ LoopGoesOn)
       /\ \A i \in DOMAIN reminders :
             RowChanged(i) =>
                 /\ pc \in {"UpdateRemindAt", "Deactivate"}
                 /\ due[idx].ID = i
                 /\ last = Call("Send", i, TRUE)]_vars

\* A delivery has failed, the tick is at the next reminder and the row of
\* the failed one is still active and due.
C2_Witness ==
    /\ pc = "Send" /\ idx = 2
    /\ last = Call("Send", due[1].ID, FALSE)
    /\ reminders[due[1].ID].IsActive
    /\ reminders[due[1].ID].RemindAt = due[1].RemindAt
    /\ reminders[due[1].ID].LastFiredAt = Nil

\* C3: a non-recurring reminder whose delivery and store update succeed
\* becomes inactive; an inactive reminder never becomes active again, is
\* never returned by the due lookup and is never delivered.
C3_FiredOnceThenInactive ==
    [][/\ (SendStep(TRUE) /\ ~due[idx].IsRecurring) => pc' = "Deactivate"
       /\ (WriteStep(TRUE) /\ pc = "Deactivate") => ~reminders'[due[idx].ID].IsActive
       /\ \A i \in DOMAIN reminders :
             ~reminders[i].IsActive =>
                 /\ ~reminders'[i].IsActive
                 /\ ReadStep(TRUE) => i \notin ReturnedIDs
                 /\ SendStep(TRUE) => due[idx].ID # i]_vars

\* A non-recurring reminder has fired and is inactive, and a later tick has
\* read the due set since.
C3_Witness ==
    \E i \in DOMAIN reminders :
        /\ ~reminders[i].IsRecurring
        /\ ~reminders[i].IsActive
        /\ reminders[i].LastFiredAt # Nil
        /\ last = Call("GetDueReminders", 0, TRUE)
        /\ now > Deref(reminders[i].LastFiredAt)

\* C4: the poller never makes a recurring reminder inactive; after a
\* successful delivery it computes nextTime with the Recurrence Calculator
\* from the reminder's current remindAt, its rule and the current time, and
\* the successful store update sets remindAt to it and lastFiredAt to the
\* current time, leaving the reminder active.
C4_RecurringRescheduled ==
    [][/\ (SendStep(TRUE) /\ due[idx].IsRecurring) =>
             /\ pc' = "UpdateRemindAt"
             /\ nextTime' = calculateNext(reminders[due[idx].ID].RemindAt,
                                          Deref(reminders[due[idx].ID].RecurrenceRule),
                                          TZOffset, now)
       /\ (WriteStep(TRUE) /\ pc = "UpdateRemindAt") =>
             reminders' = [reminders EXCEPT ![due[idx].ID].RemindAt = nextTime,
                                            ![due[idx].ID].LastFiredAt = Ptr(now)]
       /\ \A i \in DOMAIN reminders :
             (reminders[i].IsRecurring /\ reminders[i].IsActive) => reminders'[i].IsActive]_vars

\* A recurring reminder has fired: it is active, has a lastFiredAt and a
\* remindAt later than the one it was created with.
C4_Witness ==
    \E i \in DOMAIN reminders :
        /\ reminders[i].IsRecurring
        /\ reminders[i].IsActive
        /\ reminders[i].LastFiredAt # Nil
        /\ reminders[i].RemindAt > StartTime + IntervalSec

\* The remindAt values the users ask for.
RequestedTimes == {Deref(c.remindAt) : c \in {x \in AddChoices : x.hasReminder}}
LiveTimes == {Deref(c.remindAt) : c \in LiveAddChoices}

\* Reminder i is active and its occurrence t has come due.
DueOccurrence(i, t) ==
    /\ i \in DOMAIN reminders
    /\ reminders[i].IsActive
    /\ reminders[i].RemindAt = t
    /\ t <= now

\* The sink has accepted a message for occurrence t of reminder i, addressed
\* to the owner of its todo.
Delivered(i, t) ==
    \E k \in DOMAIN sent :
        /\ sent[k].ID = i
        /\ sent[k].RemindAt = t
        /\ sent[k].UserID = todos[reminders[i].TodoID].UserID

\* Every call that can still fail wastes at most one tick, and every tick
\* takes one more interval: enough intervals are left to outlast the faults.
EnoughTicksLeft == MaxAdvances - advances >= (MaxFaults - faults) + 1

\* C5: while the poller keeps ticking (no stop signal) and with due-set
\* reads and deliveries failing only finitely often, every active reminder
\* whose remindAt has passed is eventually delivered: a failed attempt is
\* made again on the following tick, so one tick more than there are
\* failures is enough.
C5_EventuallyDelivered ==
    \A i \in 1..MaxTodos : \A t \in LiveTimes :
        (DueOccurrence(i, t) /\ EnoughTicksLeft) ~> (Delivered(i, t) \/ stopCh)

\* A reminder has been delivered on a tick that followed a failed call.
C5_Witness ==
    \E i \in DOMAIN reminders :
        /\ \E k \in DOMAIN sent : sent[k].ID = i /\ sent[k].RemindAt \in LiveTimes
        /\ faults > 0
        /\ advances = MaxAdvances
        /\ ~stopCh

\* The number of messages the sink has accepted for occurrence t of
\* reminder i.
DeliveryCount(i, t) ==
    Cardinality({k \in DOMAIN sent : sent[k].ID = i /\ sent[k].RemindAt = t})

\* The process is about to start its poller, no call will fail any more and
\* the time left is that of one tick.
Resumed ==
    /\ pc = "init"
    /\ faults = MaxFaults
    /\ advances = MaxAdvances - 1

\* C6: when the poller starts again after an outage or a restart (which may
\* have struck in the middle of a tick), every active reminder whose
\* remindAt is in the past is delivered once more on the first tick that
\* follows, if the read and the deliveries of that tick succeed: the tables
\* alone decide what is due.  (Each delivery before the resumption but the
\* last was followed by a fault, and the last by the restart: n is at most
\* MaxFaults.)
C6_DeliveredOnFirstTickAfterResume ==
    \A i \in 1..MaxTodos : \A t \in LiveTimes : \A n \in 0..MaxFaults :
        (Resumed /\ DueOccurrence(i, t) /\ DeliveryCount(i, t) = n)
            ~> (DeliveryCount(i, t) > n \/ stopCh)

\* A reminder has just been delivered about a day after it came due, on
\* the last tick of a run in which the fault budget is spent.
C6_Witness ==
    /\ faults = MaxFaults
    /\ advances = MaxAdvances
    /\ last.op = "Send" /\ last.ok
    /\ \E k \in DOMAIN sent :
          /\ sent[k].ID = last.id
          /\ now - sent[k].RemindAt >= SecPerDay - IntervalSec
          /\ k = Len(sent)

\* The occurrence (reminder and remindAt) a delivery record stands for.
Occurrence(m) == [ID |-> m.ID, RemindAt |-> m.RemindAt]

\* C7 as stated: no occurrence (one value of remindAt of one reminder) is
\* delivered twice.
C7_ExactlyOncePerOccurrence ==
    \A k1, k2 \in DOMAIN sent :
        Occurrence(sent[k1]) = Occurrence(sent[k2]) => k1 = k2

\* C7, amended: an occurrence whose state update (reschedule or
\* deactivation) has been stored is never delivered again; until then, an
\* occurrence that was delivered is delivered again on a following tick.
C7_NoRedeliveryOnceStored ==
    [][SendStep(TRUE) =>
          [ID |-> due[idx].ID, RemindAt |-> due[idx].RemindAt] \notin stored]_vars

\* A recurring reminder has been delivered for an occurrence that is
\* stored and, later, for its next occurrence.
C7_Witness ==
    \E k1, k2 \in DOMAIN sent :
        /\ k1 < k2
        /\ sent[k1].ID = sent[k2].ID
        /\ sent[k1].RemindAt < sent[k2].RemindAt
        /\ Occurrence(sent[k1]) \in stored

\* C8: when the store update of a delivered reminder fails, no row changes,
\* the tick goes on with the remaining due reminders, and the reminder is
\* still due (same remindAt, still active), so the next tick returns and
\* delivers it again.
C8_FailedUpdateKeepsDue ==
    [][WriteStep(FALSE) =>
          /\ reminders' = reminders
          /\ LoopGoesOn
          /\ IsDue(reminders'[due[idx].ID], todos', now')
          /\ reminders'[due[idx].ID].RemindAt = due[idx].RemindAt
          /\ Occurrence(due[idx]) \in {Occurrence(sent[k]) : k \in DOMAIN sent}]_vars

\* A store update has just failed and the tick has gone on to the next due
\* reminder.
C8_Witness ==
    /\ last.op \in {"UpdateRemindAt", "Deactivate"}
    /\ ~last.ok
    /\ pc = "Send"
    /\ idx > 1
    /\ reminders[due[idx - 1].ID].IsActive

\* C9: when reading the due set fails, the tick ends at once: no delivery
\* is made, no row changes, and the poller is back at its select, where the
\* next tick of the ticker starts the next tick().
C9_FailedReadAbortsTick ==
    [][ReadStep(FALSE) =>
          /\ reminders' = reminders
          /\ sent' = sent
          /\ stored' = stored
          /\ pc' = "select"]_vars

\* A read has just failed while a reminder was due.
C9_Witness ==
    /\ last = Call("GetDueReminders", 0, FALSE)
    /\ pc = "select"
    /\ \E i \in DOMAIN reminders : IsDue(reminders[i], todos, now)

\* C10 as stated: once its stop signal is raised, a loop at its select
\* starts no tick and no task.
C10_NoTickAfterStop ==
    [][/\ (stopCh /\ pc = "select" => pc' # "GetDueReminders")
       /\ (dStopCh /\ dpc = "select" => dpc' # "run")]_vars

\* A log of calls of Stop in which the first call closed the channel and
\* every later call did nothing.
ClosedOnce(log) ==
    \A k \in DOMAIN log : log[k] = (IF k = 1 THEN "closed" ELSE "skipped")

\* C11: however often Stop is called on a loop, before or after its Start,
\* no call fails (the stop channel is closed once, by the first call), and
\* a call after the first changes nothing: the effect is that of one call.
C11_StopIdempotent ==
    /\ [](/\ ClosedOnce(stops) /\ (stops # <<>> => stopCh)
          /\ ClosedOnce(dStops) /\ (dStops # <<>> => dStopCh))
    /\ [][/\ (stops # <<>> /\ Len(stops') > Len(stops)) =>
                UNCHANGED <<now, advances, faults, todos, reminders, pc, tickerC,
                            stopCh, once, due, idx, nextTime, sent, stored, last,
                            dpc, dStopCh, dOnce, dStops, dTask, dWake>>
          /\ (dStops # <<>> /\ Len(dStops') > Len(dStops)) =>
                UNCHANGED <<now, advances, faults, todos, reminders, pc, tickerC,
                            stopCh, once, stops, due, idx, nextTime, sent, stored,
                            last, dpc, dStopCh, dOnce, dTask, dWake>>]_vars

\* Stop has been called twice on each loop, on the poller before its Start.
C11_Witness ==
    /\ Len(stops) >= 2
    /\ Len(dStops) >= 2
    /\ pc = "init"
    /\ dpc # "init"

\* C12: after Stop, the loop's Start returns, whether the loop was asleep
\* in its select (no time has to pass: it does not wait for the tick or
\* the deadline) or in the middle of a tick or task, and a loop that has
\* returned stays so.
C12_StopTerminates ==
    /\ stopCh ~> (pc = "returned")
    /\ dStopCh ~> (dpc = "returned")
    /\ [][/\ pc = "returned" => pc' = "returned"
          /\ dpc = "returned" => dpc' = "returned"]_vars

\* Both loops have returned, the Daily Task Scheduler hours before the
\* deadline it was sleeping for.
C12_Witness ==
    /\ pc = "returned"
    /\ dpc = "returned"
    /\ dWake - now >= SecPerHour

\* ------------------------------------------------------------------------
\* Properties of the recurrence calculator (under CalcSpec).
\* ------------------------------------------------------------------------

\* Midnight that begins the calendar day of t in the user's timezone, and
\* the instant hour:min of that day.
DayStart(t) == DayNumber(t, TZOffset) * SecPerDay - TZOffset
TodayAt(t, hour, min) == DayStart(t) + hour * SecPerHour + min * SecPerMin

\* The instant hour:min of day d of month m of year y in the user's
\* timezone, a day beyond the end of the month running on into the next.
LocalInstant(y, m, d, hour, min) ==
    DaysFromCivil(y, m, d) * SecPerDay + hour * SecPerHour + min * SecPerMin - TZOffset

\* The month that follows the month of t, and the number of its days.
MonthAfter(t) ==
    IF Month(t, TZOffset) = 12
    THEN [year |-> Year(t, TZOffset) + 1, month |-> 1]
    ELSE [year |-> Year(t, TZOffset), month |-> Month(t, TZOffset) + 1]
DaysIn(ym) ==
    (IF ym.month = 12 THEN DaysFromCivil(ym.year + 1, 1, 1)
                      ELSE DaysFromCivil(ym.year, ym.month + 1, 1))
      - DaysFromCivil(ym.year, ym.month, 1)

\* C13 as stated: for the daily rule the result is current + 1 day, or the
\* day after now's date at current's hour and minute when that is before
\* now, and it is strictly after now and strictly after current.
C13_DailyStrictlyLater ==
    (cRule = RuleDaily /\ cNext # Nil) =>
        /\ Deref(cNext) =
              (IF cCurrent + SecPerDay < cNow
               THEN TodayAt(cNow, Hour(cCurrent, TZOffset), Minute(cCurrent, TZOffset))
                      + SecPerDay
               ELSE cCurrent + SecPerDay)
        /\ Deref(cNext) > cNow
        /\ Deref(cNext) > cCurrent

\* The day tokens parseDayOfWeek knows, and the weekly rules that carry one.
DayTokens ==
    { <<"m", "o", "n">>,
      <<"s", "e", "n", "i", "n">>,
      <<"t", "u", "e">>,
      <<"s", "e", "l", "a", "s", "a">>,
      <<"w", "e", "d">>,
      <<"r", "a", "b", "u">>,
      <<"t", "h", "u">>,
      <<"k", "a", "m", "i", "s">>,
      <<"f", "r", "i">>,
      <<"j", "u", "m", "a", "t">>,
      <<"s", "a", "t">>,
      <<"s", "a", "b", "t", "u">>,
      <<"s", "u", "n">>,
      <<"m", "i", "n", "g", "g", "u">> }
IsWeeklyRule(rule) ==
    HasPrefix(rule, PrefixWeekly) /\ ToLower(TrimPrefix(rule, PrefixWeekly)) \in DayTokens

\* C14 as stated: for a weekly rule the computed occurrence falls, in the
\* user's timezone, on the weekday of the rule, and a computed occurrence
\* that fired before the next one was due is followed by one a multiple of
\* 7 days later.
C14_WeeklyOnItsDay ==
    (IsWeeklyRule(cRule) /\ cNext # Nil) =>
        /\ Weekday(Deref(cNext), TZOffset) = parseDayOfWeek(TrimPrefix(cRule, PrefixWeekly))
        /\ (cFires >= 1 /\ cNow < cCurrent + 7 * SecPerDay) =>
                (Deref(cNext) - cCurrent) % (7 * SecPerDay) = 0

\* C15: for monthly:<d> with d in 1..31 the result is day d of the month
\* after current's month at current's local hour and minute, or, when that
\* is before now, day d of the month after now's month; when that month has
\* a day d the result is that day; and the example of the claim.
C15_MonthlyNextMonth ==
    LET day == Atoi(TrimPrefix(cRule, PrefixMonthly))
        hh  == Hour(cCurrent, TZOffset)
        mi  == Minute(cCurrent, TZOffset)
        m1  == MonthAfter(cCurrent)
        m2  == MonthAfter(cNow)
        first  == LocalInstant(m1.year, m1.month, day.val, hh, mi)
        second == LocalInstant(m2.year, m2.month, day.val, hh, mi)
        target == IF first < cNow THEN m2 ELSE m1
    IN  /\ (HasPrefix(cRule, PrefixMonthly) /\ ~day.err /\ day.val \in 1..31 /\ cNext # Nil) =>
              /\ Deref(cNext) = (IF first < cNow THEN second ELSE first)
              /\ day.val <= DaysIn(target) =>
                    /\ Day(Deref(cNext), TZOffset) = day.val
                    /\ Month(Deref(cNext), TZOffset) = target.month
                    /\ Year(Deref(cNext), TZOffset) = target.year
                    /\ Hour(Deref(cNext), TZOffset) = hh
                    /\ Minute(Deref(cNext), TZOffset) = mi
        /\ (/\ cCurrent = Local(2026, 2, 5, 7, 0)
             /\ cRule = PrefixMonthly \o <<"5">>
             /\ cNow = Local(2026, 2, 20, 0, 0)
             /\ cNext # Nil) => Deref(cNext) = Local(2026, 3, 5, 7, 0)

\* The example of C15 has been computed.
C15_Witness ==
    /\ cCurrent = Local(2026, 2, 5, 7, 0)
    /\ cRule = PrefixMonthly \o <<"5">>
    /\ cNow = Local(2026, 2, 20, 0, 0)
    /\ cNext = Ptr(Local(2026, 3, 5, 7, 0))

\* Other clock readings within the calendar day of t: its first and last
\* second, 06:00 and noon.
SameDayNows(t) ==
    {DayStart(t) + o : o \in {0, 6 * SecPerHour, 12 * SecPerHour, SecPerDay - 1}}

\* Both readings are before, or both are after, the minute hour:min of
\* current on the day of n1.
SameSide(n1, n2, current) ==
    LET a == TodayAt(n1, Hour(current, TZOffset), Minute(current, TZOffset))
    IN  (n1 < a /\ n2 < a) \/ (n1 >= a + SecPerMin /\ n2 >= a + SecPerMin)

\* C16 as stated: computed at another now of the same calendar day, the
\* next occurrence of the same current and rule is the same.
C16_SameDaySameResult ==
    cNext # Nil =>
        \A n2 \in SameDayNows(cNow) :
            calculateNext(cCurrent, cRule, TZOffset, n2) = Deref(cNext)

\* C16, amended: it is the same when the two values of now are both before,
\* or both after, current's hour and minute on that day.
C16_SameSideSameResult ==
    cNext # Nil =>
        \A n2 \in SameDayNows(cNow) :
            SameSide(cNow, n2, cCurrent) =>
                calculateNext(cCurrent, cRule, TZOffset, n2) = Deref(cNext)

\* A daily occurrence that fired more than a day late has been rescheduled,
\* and another reading of the same day lies on the same side.
C16_Witness ==
    /\ cRule = RuleDaily
    /\ cNext # Nil
    /\ cCurrent + SecPerDay < cNow
    /\ \E n2 \in SameDayNows(cNow) : n2 # cNow /\ SameSide(cNow, n2, cCurrent)

\* C17 as stated: for a malformed rule the result is current + 1 day.
C17_MalformedFallsBack ==
    (cRule \in MalformedRules /\ cNext # Nil) => Deref(cNext) = cCurrent + SecPerDay

\* ------------------------------------------------------------------------
\* Properties of the Daily Task Scheduler (under DailySpec).
\* ------------------------------------------------------------------------

\* The top of the loop of Start() has just been passed: the clock was read,
\* the next task chosen and the timer armed.
ArmStep == dpc # "select" /\ dpc' = "select"

\* C18: the deadline of an ordinary daily task at hh:mm is today at hh:mm
\* when that is strictly after now and tomorrow at hh:mm otherwise, also at
\* exactly hh:mm; at 2026-02-14T20:00 the task chosen is the briefing, at
\* 2026-02-15T07:30, with the roster of three and with the roster of two.
C18_DailyDeadline ==
    [][ArmStep =>
          /\ \A k \in DOMAIN tasks :
                tasks[k].name # "monthly_report" =>
                    LET today    == TodayAt(now, tasks[k].hour, tasks[k].minute)
                        expected == IF today > now THEN today ELSE today + SecPerDay
                    IN  /\ taskTarget(now, tasks[k]) = expected
                        /\ dTask' = tasks[k].name => dWake' = expected
          /\ now = Local(2026, 2, 14, 20, 0) =>
                /\ dTask' = "daily_briefing"
                /\ dWake' = Local(2026, 2, 15, 7, 30)
                /\ findNextTask(now, tasksOld) =
                      [task |-> tasksOld[1],
                       duration |-> 11 * SecPerHour + 30 * SecPerMin]]_vars

\* Started at 2026-02-14T20:00, the scheduler sleeps until the briefing of
\* 2026-02-15T07:30.
C18_Witness ==
    /\ now = Local(2026, 2, 14, 20, 0)
    /\ dpc = "select"
    /\ dTask = "daily_briefing"
    /\ dWake = Local(2026, 2, 15, 7, 30)

\* The first day of the month after the month of t, at hour:min.
FirstOfNextMonth(t, hour, min) ==
    LocalInstant(MonthAfter(t).year, MonthAfter(t).month, 1, hour, min)

\* C19: the deadline of the monthly report is today at 08:00 when today is
\* the first of the month and 08:00 is still ahead, else the first of the
\* next month at 08:00, in January of the next year when now is in
\* December; with the two examples of the claim.
C19_MonthlyDeadline ==
    [][ArmStep =>
          LET expected == IF Day(now, TZOffset) = 1 /\ TodayAt(now, 8, 0) > now
                          THEN TodayAt(now, 8, 0)
                          ELSE FirstOfNextMonth(now, 8, 0)
          IN  /\ taskTarget(now, tasks[2]) = expected
              /\ dTask' = "monthly_report" => dWake' = expected
              /\ now = Local(2026, 3, 1, 7, 59) =>
                    dTask' = "monthly_report" /\ dWake' = Local(2026, 3, 1, 8, 0)
              /\ now = Local(2026, 3, 1, 8, 1) =>
                    taskTarget(now, tasks[2]) = Local(2026, 4, 1, 8, 0)
              /\ Month(now, TZOffset) = 12 /\ Day(now, TZOffset) > 1 =>
                    taskTarget(now, tasks[2]) = Local(Year(now, TZOffset) + 1, 1, 1, 8, 0)]_vars

\* Started at 2026-03-01T07:59, the scheduler runs the monthly report at
\* 08:00.
C19_Witness ==
    /\ dpc = "run"
    /\ dTask = "monthly_report"
    /\ now = Local(2026, 3, 1, 8, 0)
    /\ dWake = now

\* The smallest of the deadlines of the roster at time t.
EarliestDeadline(t) ==
    CHOOSE d \in {taskTarget(t, tasks[k]) : k \in DOMAIN tasks} :
        \A k \in DOMAIN tasks : d <= taskTarget(t, tasks[k])

\* C20: at the top of every iteration the task chosen is the first of the
\* roster whose deadline, computed from the clock as it is then, is the
\* smallest, and the timer is set to that deadline; the timer case is taken
\* no earlier than the deadline and runs the chosen task; after a task the
\* loop is at its top again.
C20_EarliestTaskRuns ==
    [][/\ ArmStep =>
            /\ dWake' = EarliestDeadline(now)
            /\ dWake' > now
            /\ \E k \in DOMAIN tasks :
                  /\ dTask' = tasks[k].name
                  /\ taskTarget(now, tasks[k]) = dWake'
                  /\ \A j \in 1..(k - 1) : taskTarget(now, tasks[j]) > dWake'
       /\ (dpc = "select" /\ dpc' = "run") =>
            now >= dWake /\ dTask' = dTask /\ dWake' = dWake
       /\ dpc = "run" => dpc' = "run" \/ ArmStep
       /\ dpc' = "run" => dpc \in {"select", "run"}]_vars

\* The follow-up of 19:00 runs at its deadline, after the briefing of 07:30
\* has run.
C20_Witness ==
    /\ dpc = "run"
    /\ dTask = "overdue_followup"
    /\ now = dWake
    /\ advances = 2

\* ------------------------------------------------------------------------
\* Further properties of the recurrence calculator (under CalcSpec).
\* ------------------------------------------------------------------------

\* C24 as stated: the occurrence computed when a recurring reminder fires
\* is strictly after the time of the firing, whatever the rule and however
\* late the firing (so that the next tick does not find it due again).
C24_RescheduledAfterFiring ==
    cNext # Nil => Deref(cNext) > cNow

\* The yearly rules with a month in 1..12 and a day in 1..31.
IsYearlyRule(rule) ==
    /\ HasPrefix(rule, PrefixYearly)
    /\ LET parts == Split(TrimPrefix(rule, PrefixYearly), "-")
       IN  /\ Len(parts) = 2
           /\ ~Atoi(parts[1]).err /\ Atoi(parts[1]).val \in 1..12
           /\ ~Atoi(parts[2]).err /\ Atoi(parts[2]).val \in 1..31

\* C30 as stated: for yearly:<month>-<day> the result is that month and
\* day of the year after current's year at current's local hour and minute,
\* or of the year after now's year when that is before now, and it is
\* strictly after now and after current.
C30_YearlyNextYear ==
    (IsYearlyRule(cRule) /\ cNext # Nil) =>
        LET parts  == Split(TrimPrefix(cRule, PrefixYearly), "-")
            month  == Atoi(parts[1]).val
            day    == Atoi(parts[2]).val
            hh     == Hour(cCurrent, TZOffset)
            mi     == Minute(cCurrent, TZOffset)
            first  == LocalInstant(Year(cCurrent, TZOffset) + 1, month, day, hh, mi)
            second == LocalInstant(Year(cNow, TZOffset) + 1, month, day, hh, mi)
        IN  /\ Deref(cNext) = (IF first < cNow THEN second ELSE first)
            /\ Deref(cNext) > cNow
            /\ Deref(cNext) > cCurrent

\* ------------------------------------------------------------------------
\* Further properties of the Reminder Poller and the store (under Spec).
\* ------------------------------------------------------------------------

\* Reminder i has been delivered at least once.
EverDelivered(i) == \E k \in DOMAIN sent : sent[k].ID = i

\* C29: the store update that completes a firing (reschedule of a
\* recurring reminder, deactivation of any other) sets lastFiredAt to the
\* time of that update together with remindAt or isActive, and touches no
\* other row; a reminder that was never delivered has lastFiredAt unset;
\* and lastFiredAt, once set, stays set and never decreases.
C29_LastFiredAtIsFiringTime ==
    /\ [](\A i \in DOMAIN reminders :
              ~EverDelivered(i) => reminders[i].LastFiredAt = Nil)
    /\ [][/\ WriteStep(TRUE) =>
                LET r == due[idx]
                IN  /\ reminders'[r.ID].LastFiredAt = Ptr(now)
                    /\ IF pc = "UpdateRemindAt"
                       THEN /\ r.IsRecurring
                            /\ reminders'[r.ID].RemindAt = nextTime
                            /\ reminders'[r.ID].IsActive = reminders[r.ID].IsActive
                       ELSE /\ reminders'[r.ID].IsActive = FALSE
                            /\ reminders'[r.ID].RemindAt = reminders[r.ID].RemindAt
                    /\ \A i \in DOMAIN reminders : i # r.ID => ~RowChanged(i)
          /\ \A i \in DOMAIN reminders :
                /\ reminders'[i].LastFiredAt # reminders[i].LastFiredAt =>
                        WriteStep(TRUE) /\ i = due[idx].ID
                /\ reminders[i].LastFiredAt # Nil =>
                        /\ reminders'[i].LastFiredAt # Nil
                        /\ Deref(reminders'[i].LastFiredAt) >= Deref(reminders[i].LastFiredAt)]_vars

\* A daily reminder has fired a second time, a day after its first firing,
\* and a single-shot reminder has fired before.
C29_Witness ==
    /\ last.op = "UpdateRemindAt" /\ last.ok
    /\ \E i, j \in DOMAIN reminders :
          /\ reminders[i].IsRecurring
          /\ reminders[i].LastFiredAt = Ptr(now)
          /\ DeliveryCount(i, reminders[i].RemindAt - 2 * SecPerDay) = 1
          /\ DeliveryCount(i, reminders[i].RemindAt - SecPerDay) = 1
          /\ ~reminders[j].IsRecurring
          /\ ~reminders[j].IsActive
          /\ reminders[j].LastFiredAt # Nil
          /\ Deref(reminders[j].LastFiredAt) < now

\* ------------------------------------------------------------------------
\* The Daily Task Scheduler with its task functions, over users that own
\* todos, from instants shortly before a task's time.
\* ------------------------------------------------------------------------

\* A minute before the briefing on the first of a month, between the
\* briefing and the report on that day, a minute before the follow-up on an
\* ordinary day, and the last evening of a year.
TaskNows ==
    { Local(2026, 3, 1, 7, 29),
      Local(2026, 3, 1, 7, 31),
      Local(2026, 2, 2, 18, 59),
      Local(2026, 12, 31, 19, 0) }

\* The clock while the loop sleeps or a task function runs: half an hour,
\* half a day and a month.
TaskSteps == {31 * SecPerMin, 13 * SecPerHour, 30 * SecPerDay}

\* Todos without reminder, of two users.
TaskAddChoices == {AddRequest(u, FALSE, Nil, Nil) : u \in {101, 102}}

TasksInit == (\E t \in TaskNows : InitAt(t)) /\ CalcIdle

TasksNext ==
    \/ \E d \in TaskSteps : Advance(d)
    \/ AdvanceToDeadline
    \/ \E c \in TaskAddChoices : Add(c.userID, c.hasReminder, c.remindAt, c.recurring, TRUE)
    \/ DailyStart
    \/ \E ok \in BOOLEAN : DailySelectTimer(ok)
    \/ \E ok \in BOOLEAN, n \in 0..MaxTodos : TaskCall(ok, n)
    \/ DailyTaskDone

TasksSpec == TasksInit /\ [][TasksNext]_vars

\* The calls logged for user u by the running task function.
CallsFor(u, op) == {k \in DOMAIN bRun.log : bRun.log[k].user = u /\ bRun.log[k].op = op}

\* The number of messages the task function has for user u: as many as the
\* overdue todos listed, one briefing or report, none when the user's todos,
\* overdue todos or report could not be read.
MessagesFor(u) ==
    LET first == CallsFor(u, FirstCall(bRun.task))
    IN  IF first = {} THEN 0
        ELSE LET c == bRun.log[CHOOSE k \in first : TRUE]
             IN  IF ~c.ok THEN 0
                 ELSE IF c.op = "ListOverdueByUser" THEN c.n ELSE 1

\* C21: when a task function returns, every user listed has been handled
\* whatever failed for the users before it -- its data was fetched, and
\* every message there was for it was handed to Send -- and the next
\* deadline is the earliest target time after the clock, as after a run
\* without failures.
C21_FailureIsolation ==
    [][(dpc = "run" /\ dpc' = "select") =>
          /\ \A i \in DOMAIN bRun.users :
                LET u == bRun.users[i]
                IN  /\ Cardinality(CallsFor(u, FirstCall(bRun.task))) = 1
                    /\ Cardinality(CallsFor(u, "Send")) = MessagesFor(u)
          /\ \A k \in DOMAIN tasks : dWake' <= taskTarget(now, tasks[k])
          /\ \E k \in DOMAIN tasks :
                dWake' = taskTarget(now, tasks[k]) /\ dTask' = tasks[k].name
          /\ dWake' > now]_vars

\* A task function has returned after a failure for its first user and a
\* successful Send to its second.
C21_Witness ==
    /\ dpc = "run"
    /\ bRun.step = "done"
    /\ Len(bRun.users) = 2
    /\ \E k \in DOMAIN bRun.log : bRun.log[k].user = bRun.users[1] /\ ~bRun.log[k].ok
    /\ \E k \in DOMAIN bRun.log :
            bRun.log[k].user = bRun.users[2] /\ bRun.log[k].op = "Send" /\ bRun.log[k].ok

\* The calendar month before the month of instant t, in the scheduler's
\* timezone: December of the year before in January.
MonthBefore(t) ==
    IF Month(t, TZOffset) = 1
    THEN [year |-> Year(t, TZOffset) - 1, month |-> 12]
    ELSE [year |-> Year(t, TZOffset), month |-> Month(t, TZOffset) - 1]

\* C22: whenever the monthly report executes, the year and month it reports
\* are those of the calendar month immediately before the month of the
\* execution time.
C22_ReportsPreviousMonth ==
    (dpc = "run" /\ bRun.task = "monthly_report") =>
        /\ bRun.year = MonthBefore(bRun.at).year
        /\ bRun.month = MonthBefore(bRun.at).month

\* Instants a and b lie in the same period of a task: the same calendar
\* month for the month-anchored task, the same calendar day for the others.
SamePeriod(task, a, b) ==
    /\ Year(a, TZOffset) = Year(b, TZOffset)
    /\ Month(a, TZOffset) = Month(b, TZOffset)
    /\ task.name = "monthly_report" \/ Day(a, TZOffset) = Day(b, TZOffset)

\* C25: when a task function returns and another task's target time has
\* passed while it ran, that task is still to be executed for that day
\* (month): the deadline the loop computes for it lies in the day (month)
\* of the target that passed.
C25_NoOccurrenceSkipped ==
    [][(dpc = "run" /\ dpc' = "select") =>
          \A k \in DOMAIN tasks :
              LET passed == taskTarget(bRun.at, tasks[k])
              IN  (tasks[k].name # bRun.task /\ passed <= now) =>
                      SamePeriod(tasks[k], taskTarget(now, tasks[k]), passed)]_vars

\* The roster entry of the task named name.
TaskNamed(name) == tasks[CHOOSE k \in DOMAIN tasks : tasks[k].name = name]

\* The task's target time on the calendar day of instant t (on the first of
\* the month of t for the month-anchored task).
TargetOfPeriod(task, t) ==
    Date(Year(t, TZOffset), Month(t, TZOffset),
         IF task.name = "monthly_report" THEN 1 ELSE Day(t, TZOffset),
         task.hour, task.minute, 0, TZOffset)

\* C26: over any run, no task is executed twice in one calendar day (in one
\* calendar month for the month-anchored task), and no execution begins
\* before the task's target time of that day.
C26_AtMostOncePerPeriod ==
    /\ \A i \in DOMAIN ran : ran[i].at >= TargetOfPeriod(TaskNamed(ran[i].name), ran[i].at)
    /\ \A i, j \in DOMAIN ran :
          (i < j /\ ran[i].name = ran[j].name) =>
              ~SamePeriod(TaskNamed(ran[i].name), ran[i].at, ran[j].at)

\* ------------------------------------------------------------------------
\* Graceful shutdown (the signal goroutine of main()).
\* ------------------------------------------------------------------------

\* sig := <-sigCh: SIGINT or SIGTERM arrives.
ShutdownSignal ==
    /\ mpc = "running"
    /\ mpc' = "Stop"
    /\ UNCHANGED <<now, advances, faults, edits>>
    /\ UNCHANGED storeVars
    /\ UNCHANGED pollerVars
    /\ UNCHANGED histVars
    /\ UNCHANGED dailyVars
    /\ UNCHANGED calcVars

\* scheduler.Stop(): returns once the channel is closed; it waits for
\* nothing.
ShutdownSchedulerStop ==
    /\ mpc = "Stop"
    /\ mpc' = "DailyStop"
    /\ LET outcome == StopOutcome(once, stopCh)
       IN  /\ stops' = Append(stops, outcome)
           /\ once' = TRUE
           /\ stopCh' = (stopCh \/ outcome = "closed")
    /\ UNCHANGED <<now, advances, faults, edits>>
    /\ UNCHANGED <<todos, reminders, pc, tickerC, due, idx, nextTime>>
    /\ UNCHANGED histVars
    /\ UNCHANGED dailyVars
    /\ UNCHANGED calcVars

\* dailyScheduler.Stop()
ShutdownDailyStop ==
    /\ mpc = "DailyStop"
    /\ mpc' = "Close"
    /\ LET outcome == StopOutcome(dOnce, dStopCh)
       IN  /\ dStops' = Append(dStops, outcome)
           /\ dOnce' = TRUE
           /\ dStopCh' = (dStopCh \/ outcome = "closed")
    /\ UNCHANGED <<dpc, dTask, dWake, bRun, ran>>
    /\ UNCHANGED <<now, advances, faults, edits>>
    /\ UNCHANGED storeVars
    /\ UNCHANGED pollerVars
    /\ UNCHANGED histVars
    /\ UNCHANGED calcVars

\* close(cleanupStopCh); b.Stop(); database.Close()
ShutdownClose ==
    /\ mpc = "Close"
    /\ mpc' = "Exit"
    /\ UNCHANGED <<now, advances, faults, edits>>
    /\ UNCHANGED storeVars
    /\ UNCHANGED pollerVars
    /\ UNCHANGED histVars
    /\ UNCHANGED dailyVars
    /\ UNCHANGED calcVars

\* os.Exit(0): the process ends with its goroutines wherever they are.
ShutdownExit ==
    /\ mpc = "Exit"
    /\ mpc' = "exited"
    /\ UNCHANGED <<now, advances, faults, edits>>
    /\ UNCHANGED storeVars
    /\ UNCHANGED pollerVars
    /\ UNCHANGED histVars
    /\ UNCHANGED dailyVars
    /\ UNCHANGED calcVars

\* The process with both loops, over empty tables, until it has exited, and
\* its shutdown.
ShutdownNext ==
    \/ (mpc # "exited" /\ \E d \in AdvanceSteps : Advance(d))
    \/ (mpc # "exited" /\ AdvanceToDeadline)
    \/ (mpc # "exited" /\ Start)
    \/ (mpc # "exited" /\ SelectTick)
    \/ (mpc # "exited" /\ SelectStop)
    \/ (mpc # "exited" /\ \E ok \in BOOLEAN : TickGetDue(ok))
    \/ (mpc # "exited" /\ DailyStart)
    \/ (mpc # "exited" /\ \E ok \in BOOLEAN : DailySelectTimer(ok))
    \/ (mpc # "exited" /\ DailySelectStop)
    \/ (mpc # "exited" /\ DailyTaskDone)
    \/ ShutdownSignal
    \/ ShutdownSchedulerStop
    \/ ShutdownDailyStop
    \/ ShutdownClose
    \/ ShutdownExit

ShutdownSpec == Init /\ [][ShutdownNext]_vars

\* C27: once the shutdown goroutine has closed the database, and when the
\* process exits, both loops have returned (their termination was waited
\* for), so that no tick and no daily task is mid-flight.
C27_JoinedBeforeExit ==
    mpc \in {"Exit", "exited"} =>
        /\ pc \in {"init", "returned"}
        /\ dpc \in {"init", "returned"}
        /\ pc # "GetDueReminders"
        /\ dpc # "run"

\* ------------------------------------------------------------------------
\* The poller with todos being added and edited while it runs.
\* ------------------------------------------------------------------------

\* The reminder time an edit sets: none, or the day after the start.
EditChoices == {Nil, Ptr(StartTime + SecPerDay)}

EditNext ==
    \/ \E d \in AdvanceSteps : Advance(d)
    \/ \E c \in LiveAddChoices, createOk \in BOOLEAN :
            Add(c.userID, c.hasReminder, c.remindAt, c.recurring, createOk)
    \/ \E i \in 1..MaxTodos, t \in EditChoices, ok \in BOOLEAN : Edit(i, t, ok)
    \/ Start
    \/ SelectTick
    \/ \E ok \in BOOLEAN : TickGetDue(ok)
    \/ \E ok \in BOOLEAN : TickSend(ok)
    \/ \E ok \in BOOLEAN : TickUpdateRemindAt(ok)
    \/ \E ok \in BOOLEAN : TickDeactivate(ok)

EditSpec == Init /\ [][EditNext]_vars

\* C23: when the tick updates a reminder whose remindAt was set by an edit
\* after the tick read its due set (the stored time is no longer the one the
\* tick read), the update neither deactivates the reminder nor overwrites
\* the new remindAt.
C23_EditNotLost ==
    [][(WriteStep(TRUE) /\ reminders[due[idx].ID].RemindAt # due[idx].RemindAt) =>
          /\ reminders'[due[idx].ID].RemindAt = reminders[due[idx].ID].RemindAt
          /\ reminders'[due[idx].ID].IsActive = reminders[due[idx].ID].IsActive]_vars

IsMonthlyRule(rule) ==
    /\ HasPrefix(rule, PrefixMonthly)
    /\ ~Atoi(TrimPrefix(rule, PrefixMonthly)).err
    /\ Atoi(TrimPrefix(rule, PrefixMonthly)).val \in 1..31

\* The month a monthly rule aims at: the month after current's month, or
\* the month after now's month when day d of the former is before now.
TargetMonth(current, rule, t) ==
    LET m1 == MonthAfter(current)
    IN  IF LocalInstant(m1.year, m1.month, Atoi(TrimPrefix(rule, PrefixMonthly)).val,
                        Hour(current, TZOffset), Minute(current, TZOffset)) < t
        THEN MonthAfter(t)
        ELSE m1

\* C31: for monthly:<d> with d beyond the length of the target month, the
\* result is the target month's last day (at current's local hour and
\* minute) plus the excess days, which is day d - length of the following
\* month, and is not the last day of the target month.
C31_MonthlyRollsOver ==
    (IsMonthlyRule(cRule) /\ cNext # Nil) =>
        LET day    == Atoi(TrimPrefix(cRule, PrefixMonthly)).val
            target == TargetMonth(cCurrent, cRule, cNow)
            hh     == Hour(cCurrent, TZOffset)
            mi     == Minute(cCurrent, TZOffset)
            lastDay   == LocalInstant(target.year, target.month, DaysIn(target), hh, mi)
            excess == day - DaysIn(target)
        IN  day > DaysIn(target) =>
              /\ Deref(cNext) = lastDay + excess * SecPerDay
              /\ Deref(cNext) # lastDay
              /\ Year(Deref(cNext), TZOffset) = MonthAfter(lastDay).year
              /\ Month(Deref(cNext), TZOffset) = MonthAfter(lastDay).month
              /\ Day(Deref(cNext), TZOffset) = excess
              /\ Hour(Deref(cNext), TZOffset) = hh
              /\ Minute(Deref(cNext), TZOffset) = mi

\* monthly:31 from 31 January 2026 has been computed: 3 March, February
\* having 28 days.
C31_Witness ==
    /\ cCurrent = Local(2026, 1, 31, 23, 30)
    /\ cRule = PrefixMonthly \o <<"3", "1">>
    /\ cNext = Ptr(Local(2026, 3, 3, 23, 30))

\* The occurrence cCurrent fired before the next one came due: the clock
\* at its firing is before day d of the month after its month.
FiredBeforeNextDue ==
    LET m1 == MonthAfter(cCurrent)
    IN  cNow < LocalInstant(m1.year, m1.month, Atoi(TrimPrefix(cRule, PrefixMonthly)).val,
                            Hour(cCurrent, TZOffset), Minute(cCurrent, TZOffset))

\* C32: for monthly:<d> with d from 1 to 31, an occurrence computed from a
\* computed occurrence that fired before the next came due lies in the
\* calendar month after that occurrence's month.
C32_ConsecutiveMonths ==
    (IsMonthlyRule(cRule) /\ cNext # Nil /\ cFires >= 1 /\ FiredBeforeNextDue) =>
        /\ Year(Deref(cNext), TZOffset) = MonthAfter(cCurrent).year
        /\ Month(Deref(cNext), TZOffset) = MonthAfter(cCurrent).month

\* C33: every stored reminder is marked recurring exactly when it has a
\* recurrence rule; no step changes either field of a stored reminder; and
\* the poller deactivates, after a delivery, only reminders that are not
\* marked recurring.
C33_RecurringIffRule ==
    /\ [](\A i \in DOMAIN reminders :
              reminders[i].IsRecurring <=> reminders[i].RecurrenceRule # Nil)
    /\ [][/\ \A i \in DOMAIN reminders :
                /\ reminders'[i].IsRecurring = reminders[i].IsRecurring
                /\ reminders'[i].RecurrenceRule = reminders[i].RecurrenceRule
          /\ (pc = "Send" /\ pc' = "Deactivate") =>
                /\ ~due[idx].IsRecurring
                /\ due[idx].RecurrenceRule = Nil]_vars

\* The poller has just deactivated a reminder that has no rule, and a
\* recurring reminder with its rule, rescheduled before, is stored too.
C33_Witness ==
    /\ last.op = "Deactivate" /\ last.ok
    /\ \E i, j \in DOMAIN reminders :
          /\ i = last.id
          /\ ~reminders[i].IsRecurring
          /\ reminders[i].RecurrenceRule = Nil
          /\ ~reminders[i].IsActive
          /\ reminders[j].IsRecurring
          /\ reminders[j].RecurrenceRule # Nil
          /\ reminders[j].LastFiredAt # Nil

\* ------------------------------------------------------------------------
\* The poller with todos being completed and cleaned up while it runs; no
\* call fails.
\* ------------------------------------------------------------------------

CompleteNext ==
    \/ \E d \in AdvanceSteps : Advance(d)
    \/ \E c \in LiveAddChoices :
            Add(c.userID, c.hasReminder, c.remindAt, c.recurring, TRUE)
    \/ \E i \in 1..MaxTodos : Complete(i, TRUE)
    \/ CleanupCompletedTodos(TRUE)
    \/ Start
    \/ SelectTick
    \/ TickGetDue(TRUE)
    \/ TickSend(TRUE)
    \/ TickUpdateRemindAt(TRUE)
    \/ TickDeactivate(TRUE)

CompleteSpec == Init /\ [][CompleteNext]_vars

\* C34: completing or soft-deleting a todo changes no reminder; a
\* successful due lookup returns every active reminder whose time has come,
\* whatever the state of its todo; and rescheduling a recurring reminder
\* leaves it active, also when its todo is completed or deleted.
C34_EligibleWhateverTheTodo ==
    [][/\ (\E i \in DOMAIN todos : todos'[i] # todos[i]) => reminders' = reminders
       /\ ReadStep(TRUE) =>
             \A i \in DOMAIN reminders :
                 (reminders[i].IsActive /\ reminders[i].RemindAt <= now) =>
                     i \in ReturnedIDs
       /\ (WriteStep(TRUE) /\ pc = "UpdateRemindAt") =>
             reminders'[due[idx].ID].IsActive]_vars

\* A todo was completed before its daily reminder first came due, and the
\* reminder has been delivered for two occurrences since.
C34_Witness ==
    \E i \in DOMAIN reminders :
        /\ todos[reminders[i].TodoID].IsCompleted
        /\ todos[reminders[i].TodoID].CompletedAt = Ptr(StartTime)
        /\ reminders[i].IsRecurring
        /\ reminders[i].IsActive
        /\ Cardinality({k \in DOMAIN sent : sent[k].ID = i}) >= 2
        /\ \A k \in DOMAIN sent : sent[k].ID = i => sent[k].RemindAt > StartTime

\* ------------------------------------------------------------------------
\* Both loops at work: the Reminder Poller delivering the reminders of two
\* users while the Daily Task Scheduler runs its task functions over them.
\* ------------------------------------------------------------------------

\* The state right after main() has started the Daily Task Scheduler: the
\* first pass of the loop of DailyScheduler.Start has picked the next task
\* of the roster and armed time.After; the Reminder Poller is not started
\* yet and the tables are empty.
WorkersInit ==
    /\ now = StartTime
    /\ advances = 0
    /\ faults = 0
    /\ todos = <<>>
    /\ reminders = <<>>
    /\ pc = "init"
    /\ tickerC = FALSE
    /\ stopCh = FALSE
    /\ once = FALSE
    /\ stops = <<>>
    /\ due = <<>>
    /\ idx = 0
    /\ nextTime = 0
    /\ sent = <<>>
    /\ stored = {}
    /\ last = NoCall
    /\ dpc = "select"
    /\ dStopCh = FALSE
    /\ dOnce = FALSE
    /\ dStops = <<>>
    /\ dTask = findNextTask(StartTime, tasks).task.name
    /\ dWake = StartTime + findNextTask(StartTime, tasks).duration
    /\ bRun = NoRun
    /\ ran = <<>>
    /\ mpc = "running"
    /\ edits = 0
    /\ CalcIdle

\* The two loops side by side, no call failing: time passes, users add
\* todos with reminders, the poller ticks and the task functions run.
WorkersNext ==
    \/ \E d \in AdvanceSteps : Advance(d)
    \/ AdvanceToDeadline
    \/ \E c \in LiveAddChoices :
            Add(c.userID, c.hasReminder, c.remindAt, c.recurring, TRUE)
    \/ Start
    \/ SelectTick
    \/ TickGetDue(TRUE)
    \/ TickSend(TRUE)
    \/ TickUpdateRemindAt(TRUE)
    \/ TickDeactivate(TRUE)
    \/ DailySelectTimer(TRUE)
    \/ TaskCall(TRUE, 0)
    \/ DailyTaskDone

WorkersSpec == WorkersInit /\ [][WorkersNext]_vars

\* The positions of the poller inside tick().
TickInProgress == pc \in {"GetDueReminders", "Send", "UpdateRemindAt", "Deactivate"}

\* C35: each loop is a single sequential worker.  A tick begins only at
\* the select of Start, that is after the previous tick has returned; time
\* passing during a tick (the interval elapsing) leaves the tick where it
\* is and only leaves a ticker event pending; within a tick the due
\* reminders are taken one after the other, in the order read, each one
\* finished before the next begins.  A task function begins only at the
\* select of the daily loop with no function running, keeps its list of
\* users, and takes the users one after the other.
C35_SingleSequentialWorkers ==
    [][/\ (pc' = "GetDueReminders" /\ pc # "GetDueReminders") => pc = "select"
       /\ (TickInProgress /\ now' # now) =>
             /\ pc' = pc /\ due' = due /\ idx' = idx
             /\ tickerC'
       /\ (TickInProgress /\ pc # "GetDueReminders" /\ pc' # "select") =>
             /\ due' = due
             /\ idx \in 1..Len(due)
             /\ idx' = idx \/ (idx' = idx + 1 /\ pc' = "Send")
             /\ (pc = "Send" /\ pc' \in {"UpdateRemindAt", "Deactivate"}) => idx' = idx
       /\ (pc = "GetDueReminders" /\ pc' \notin {"GetDueReminders", "select"}) =>
             pc' = "Send" /\ idx' = 1
       /\ (dpc' = "run" /\ dpc # "run") => (dpc = "select" /\ bRun = NoRun)
       /\ (dpc = "run" /\ dpc' = "run") =>
             /\ bRun'.users = bRun.users /\ bRun'.task = bRun.task
             /\ bRun'.idx = bRun.idx \/ bRun'.idx = bRun.idx + 1
             /\ bRun'.idx \in 1..Len(bRun.users) \/ bRun.users = <<>>
             /\ Len(bRun'.log) \in {Len(bRun.log), Len(bRun.log) + 1}
      ]_vars

\* A tick has outlasted the poll interval: it is at the second of its two
\* due reminders, having delivered the first, with a ticker event pending;
\* at the same time a task function is at the second of its two users.
C35_Witness ==
    /\ pc = "Send" /\ Len(due) = 2 /\ idx = 2
    /\ tickerC
    /\ Len(sent) = 1 /\ sent[1].ID = due[1].ID
    /\ dpc = "run" /\ Len(bRun.users) = 2 /\ bRun.idx = 2
    /\ \A k \in DOMAIN bRun.log : bRun.log[k].user = bRun.users[1]
    /\ bRun.log # <<>>

\* The two loops side by side, each with its stop signal raised at most
\* once at any moment, no call failing.
IsolationNext ==
    \/ Advance(IntervalSec)
    \/ AdvanceToDeadline
    \/ \E c \in LiveAddChoices :
            Add(c.userID, c.hasReminder, c.remindAt, c.recurring, TRUE)
    \/ Start
    \/ (~once /\ Stop)
    \/ SelectTick
    \/ SelectStop
    \/ TickGetDue(TRUE)
    \/ TickSend(TRUE)
    \/ TickUpdateRemindAt(TRUE)
    \/ TickDeactivate(TRUE)
    \/ (~dOnce /\ DailyStop)
    \/ DailySelectTimer(TRUE)
    \/ DailySelectStop
    \/ TaskCall(TRUE, 0)
    \/ DailyTaskDone

IsolationSpec == WorkersInit /\ [][IsolationNext]_vars

\* A step of the Daily Task Scheduler: its loop moves, or its running task
\* function does.
DailyStep == dpc' # dpc \/ bRun' # bRun \/ ran' # ran

\* C36: the two loops share no in-memory state.  A step of a Daily Task
\* Scheduler run leaves every stored reminder's remindAt, isActive and
\* lastFiredAt as they were and does not move the poller; raising the stop
\* signal of one loop changes no stored reminder and nothing of the other
\* loop; and a loop returns only on its own stop signal.
C36_LoopsShareNoState ==
    [][/\ DailyStep =>
             /\ DOMAIN reminders' = DOMAIN reminders
             /\ \A i \in DOMAIN reminders :
                   /\ reminders'[i].RemindAt = reminders[i].RemindAt
                   /\ reminders'[i].IsActive = reminders[i].IsActive
                   /\ reminders'[i].LastFiredAt = reminders[i].LastFiredAt
             /\ UNCHANGED pollerVars
       /\ (pc' # pc \/ due' # due \/ idx' # idx) => UNCHANGED dailyVars
       /\ stopCh' # stopCh =>
             /\ reminders' = reminders
             /\ UNCHANGED dailyVars
             /\ pc' = pc
       /\ dStopCh' # dStopCh =>
             /\ reminders' = reminders
             /\ UNCHANGED pollerVars
             /\ dpc' = dpc
       /\ (pc' = "returned" /\ pc # "returned") => stopCh
       /\ (dpc' = "returned" /\ dpc # "returned") => dStopCh
      ]_vars

\* A reminder was delivered and rescheduled, then a task function ran over
\* the users, then the daily loop was stopped and has returned; the
\* reminder is as the poller left it, the poller's stop signal is not
\* raised and the poller is in its next tick.
C36_Witness ==
    /\ ran # <<>>
    /\ \E i \in DOMAIN reminders :
          /\ reminders[i].IsActive
          /\ reminders[i].LastFiredAt # Nil
          /\ Deref(reminders[i].LastFiredAt) < ran[1].at
          /\ reminders[i].RemindAt > ran[1].at
    /\ dStopCh /\ dpc = "returned"
    /\ ~stopCh /\ pc = "GetDueReminders"

====
